---- MODULE Spec2Model ----
(***************************************************************************)
(* namebench: the dnsqueue worker pool (dnsqueue/dnsqueue.go) driven by    *)
(* the command-line orchestrator runCliBenchmark.                          *)
(*                                                                         *)
(* One queue is opened per nameserver under test.  A queue is two buffered *)
(* Go channels (Requests, Results), both of capacity `size`, and `workers` *)
(* goroutines running startWorker.  The orchestrator submits one Request   *)
(* per selected domain, closes Requests, reads len(selectedDomains)        *)
(* Results, stores them under the nameserver's name and goes on to the     *)
(* next nameserver; after the last one it builds and sorts the summary.    *)
(***************************************************************************)
EXTENDS Naturals, Integers, Sequences, FiniteSets, Bags, TLC

\* ------------------------------------------------------------------ bounds
\* Longest nameserver list explored.
MaxNameservers == 2
\* Longest selected-domain list explored (the batch size N).
MaxDomains == 4
\* Largest channel capacity handed to StartQueue.
MaxSize == 2
\* Largest worker count handed to StartQueue.
MaxWorkers == 2
\* Most Requests submitted over a whole run (nameservers * domains).
MaxJobs == 4
\* Most nameservers in a summary.
MaxRanked == 3
\* Most Results per nameserver in a summary.
MaxAnswers == 2
\* Most Results in a summary, all nameservers together.
MaxRankedJobs == 6
\* Most tokens in a -nameservers flag value.
MaxFlagLen == 6
\* Most tokens in a domain file.
MaxFileLen == 5
\* Largest -count.
MaxCount == 2

\* ------------------------------------------------------- values of the run
\* Nameserver addresses as parseNameservers returns them (host:port).
NameserverNames == <<"1.1.1.1:53", "208.67.222.222:53", "8.8.8.8:53", "9.9.9.9:53">>

\* Position of a nameserver address in Go's string order (sort.Strings).
NameRank(ns) ==
    CHOOSE i \in 1..Len(NameserverNames) : NameserverNames[i] = ns

\* Domain names a selection can hold; the i-th selected name of a run.
DomainNames == <<"google.com", "cloudflare.com", "amazon.com", "wikipedia.org", "twitter.com">>

\* dns.StringToType: the record type mnemonics SendQuery accepts.
StringToType == {"A", "AAAA", "MX"}

\* Values of the -record_type and -dnssec flags explored: a known and an unknown
\* mnemonic, DNSSEC off and on.
FlagSettings == {<<"A", FALSE>>, <<"BOGUS", TRUE>>}

\* Round-trip times ExchangeContext reports for a response, in nanoseconds.
Rtts == {1500000}

\* Times ExchangeContext reports when the exchange fails, in nanoseconds.
FailureRtts == {2000000}

\* The failure texts of a Result.
ErrInvalidType == "invalid DNS record type"
ErrTransport == "dns exchange failed: i/o timeout"
ErrCanceled == "dns exchange failed: context canceled"

\* dnsqueue.Request; Ctx is the one scope shared by the run (ctxDone).
Request(dest, rtype, name, verify) ==
    [Destination |-> dest, RecordType |-> rtype, RecordName |-> name,
     VerifySignature |-> verify]

\* dnsqueue.Answer projected from one resource record of the response.
Answer(name) == [Ttl |-> 60, Name |-> name, String |-> "rr"]

\* dnsqueue.Result
Result(req, duration, answers, error) ==
    [Request |-> req, Duration |-> duration, Answers |-> answers, Error |-> error]

VARIABLES
    currentNameservers, \* parseNameservers' result
    selectedDomains,    \* history.Random's result
    record_type,        \* -record_type
    dnssec,             \* -dnssec
    size,               \* StartQueue's size (ui.QUEUE_LENGTH in the CLI)
    workers,            \* StartQueue's workers (ui.WORKERS in the CLI)
    pc,                 \* the orchestrator's position in runCliBenchmark
    nsIdx,              \* index of the nameserver under test
    domIdx,             \* index of the next domain to submit
    answered,           \* Results read for the nameserver under test
    currentNsResults,   \* Results read for the nameserver under test
    allResults,         \* map nameserver -> Results
    summaryData,        \* the summary entries, sorted once pc = "done"
    Requests,           \* per queue: the Requests channel buffer
    closed,             \* per queue: Requests has been closed
    Results,            \* per queue: the Results channel buffer
    ranging,            \* per queue: workers waiting at `range queue`
    exchanging,         \* per queue: the Requests workers have on the wire
    publishing,         \* per queue: the Results workers hold for `results <-`
    exited,             \* per queue: workers that have returned
    ctxDone,            \* the shared context has been cancelled
    exchanges,          \* calls of ExchangeContext made so far
    delivered,          \* per queue: every Result sent on Results so far
    reuse,              \* one queue takes the batches of every nameserver
    nameservers,        \* -nameservers, as text
    domain_source,      \* -domain_source
    count,              \* -count
    chrome,             \* what history.Chrome returns when it is called
    file,               \* the file that -domain_source names
    domainsToTest,      \* the candidate pool of domains
    accessed            \* the domain sources read so far

vars == <<currentNameservers, selectedDomains, record_type, dnssec, size, workers,
          pc, nsIdx, domIdx, answered, currentNsResults, allResults, summaryData,
          Requests, closed, Results, ranging, exchanging, publishing, exited,
          ctxDone, exchanges, delivered, reuse,
          nameservers, domain_source, count, chrome, file, domainsToTest, accessed>>

\* The flags and the world the run reads them in; what the run has made of
\* them before the benchmarking loop.
flags == <<nameservers, domain_source, count, chrome, file>>
setup == <<domainsToTest, accessed>>

\* Everything the benchmarking loop and the summary leave as they found it.
config == <<currentNameservers, selectedDomains, record_type, dnssec, size, workers,
            flags, setup, reuse>>
orch == <<pc, nsIdx, domIdx, answered, currentNsResults, allResults, summaryData>>
pool == <<ranging, exchanging, publishing, exited>>

Queues == 1..Len(currentNameservers)
N == Len(selectedDomains)

\* ------------------------------------------------------------------- text
\* A Go string that is split, trimmed or searched is kept as its sequence of
\* tokens: every separator character is a token of its own, every run of
\* other characters is one token.  Str gives the string back.
RECURSIVE Str(_)
Str(text) == IF text = <<>> THEN "" ELSE Head(text) \o Str(Tail(text))

\* The length of a string in bytes.
RECURSIVE Width(_)
Width(text) == IF text = <<>> THEN 0 ELSE Len(Head(text)) + Width(Tail(text))

\* unicode.IsSpace, for the characters met here.
Space == {" ", "\t", "\r", "\n"}

\* Index of the first token sep in text, 0 when there is none.
IndexOf(text, sep) ==
    IF \E i \in DOMAIN text : text[i] = sep
    THEN CHOOSE i \in DOMAIN text : text[i] = sep /\ \A j \in 1..(i - 1) : text[j] # sep
    ELSE 0

\* strings.Split(text, sep): the parts between the separators, empty ones kept.
RECURSIVE Split(_, _)
Split(text, sep) ==
    LET i == IndexOf(text, sep) IN
    IF i = 0 THEN <<text>>
    ELSE <<SubSeq(text, 1, i - 1)>> \o Split(SubSeq(text, i + 1, Len(text)), sep)

\* strings.TrimSpace
RECURSIVE TrimLeft(_)
TrimLeft(text) ==
    IF text # <<>> /\ Head(text) \in Space THEN TrimLeft(Tail(text)) ELSE text
RECURSIVE TrimRight(_)
TrimRight(text) ==
    IF text # <<>> /\ text[Len(text)] \in Space
    THEN TrimRight(SubSeq(text, 1, Len(text) - 1))
    ELSE text
TrimSpace(text) == TrimRight(TrimLeft(text))

\* strings.Contains(text, sep) for a separator character.
Contains(text, sep) == \E i \in DOMAIN text : text[i] = sep

\* ------------------------------------------------------ before the benchmark
\* runCliBenchmark:36-40
defaultNameservers == <<"8.8.8.8:53", "1.1.1.1:53", "9.9.9.9:53">>
defaultDomains ==
    <<"google.com", "cloudflare.com", "amazon.com", "wikipedia.org", "twitter.com",
      "facebook.com", "youtube.com", "instagram.com", "linkedin.com", "netflix.com">>

\* parseNameservers without the fallback of lines 353-356: a flag of blanks
\* and commas gives the empty list.
RECURSIVE ParsedParts(_)
parseNameserversNoFallback(nsFlag, defaultNS) ==
    IF nsFlag = <<>> THEN defaultNS
    ELSE LET parsed == ParsedParts(Split(nsFlag, ","))
         IN [i \in DOMAIN parsed |-> Str(parsed[i])]

\* ParsedParts that keeps the blanks around an element.
RECURSIVE ParsedPartsUntrimmed(_)
ParsedPartsUntrimmed(nsParts) ==
    IF nsParts = <<>> THEN <<>>
    ELSE LET ns == Head(nsParts)
             rest == ParsedPartsUntrimmed(Tail(nsParts))
         IN IF TrimSpace(ns) = <<>> THEN rest
            ELSE IF ~Contains(ns, ":") THEN <<ns \o <<":", "53">>>> \o rest
            ELSE <<ns>> \o rest

\* parseNameservers, lines 343-352: the loop over the parts of the flag.
ParsedParts(nsParts) ==
    IF nsParts = <<>> THEN <<>>
    ELSE LET ns == TrimSpace(Head(nsParts))
             rest == ParsedParts(Tail(nsParts))
         IN IF ns = <<>> THEN rest
            ELSE IF ~Contains(ns, ":") THEN <<ns \o <<":", "53">>>> \o rest
            ELSE <<ns>> \o rest

\* parseNameservers(nsFlag, defaultNS)
parseNameservers(nsFlag, defaultNS) ==
    IF nsFlag = <<>> THEN defaultNS
    ELSE LET parsed == ParsedParts(Split(nsFlag, ","))
         IN IF Len(parsed) = 0 THEN defaultNS
            ELSE [i \in DOMAIN parsed |-> Str(parsed[i])]

\* bufio.MaxScanTokenSize, the longest line bufio.NewScanner's Scanner takes.
MaxScanTokenSize == 65536

\* bufio.ScanLines: a trailing carriage return is not part of the line.
dropCR(line) ==
    IF line # <<>> /\ line[Len(line)] = "\r" THEN SubSeq(line, 1, Len(line) - 1)
    ELSE line

\* loadDomainsFromFile's loop without the test of line 373: blank lines are
\* kept as empty domains.
RECURSIVE ScanKeepsBlank(_, _)
ScanKeepsBlank(content, domains) ==
    IF content = <<>> THEN [domains |-> domains, err |-> FALSE]
    ELSE LET i == IndexOf(content, "\n")
             raw == IF i = 0 THEN content ELSE SubSeq(content, 1, i - 1)
             rest == IF i = 0 THEN <<>> ELSE SubSeq(content, i + 1, Len(content))
             domain == Str(TrimSpace(dropCR(raw)))
         IN IF Width(raw) >= MaxScanTokenSize
            THEN [domains |-> domains, err |-> TRUE]
            ELSE ScanKeepsBlank(rest, Append(domains, domain))

\* loadDomainsFromFile, lines 370-381: the Scanner's lines, trimmed, the
\* blank ones left out; a line the Scanner's buffer cannot hold ends the scan
\* with bufio.ErrTooLong and the domains read before it.
RECURSIVE Scan(_, _)
Scan(content, domains) ==
    IF content = <<>> THEN [domains |-> domains, err |-> FALSE]
    ELSE LET i == IndexOf(content, "\n")
             raw == IF i = 0 THEN content ELSE SubSeq(content, 1, i - 1)
             rest == IF i = 0 THEN <<>> ELSE SubSeq(content, i + 1, Len(content))
             domain == Str(TrimSpace(dropCR(raw)))
         IN IF Width(raw) >= MaxScanTokenSize
            THEN [domains |-> domains, err |-> TRUE]
            ELSE Scan(rest, IF domain # "" THEN Append(domains, domain) ELSE domains)

\* loadDomainsFromFile(filePath), f the file at filePath.
loadDomainsFromFile(f) ==
    IF ~f.openable THEN [domains |-> <<>>, err |-> TRUE]
    ELSE Scan(f.content, <<>>)

\* history.ExternalHostnames: the hosts of the records whose URL parses and
\* whose registrable domain (psl.EffectiveTLDPlusOne) is found and is not the
\* host itself.
RECURSIVE ExternalHostnames(_)
ExternalHostnames(records) ==
    IF records = <<>> THEN <<>>
    ELSE LET record == Head(records)
             rest == ExternalHostnames(Tail(records))
         IN IF record.hostErr THEN rest
            ELSE IF record.suffixErr \/ record.suffix = record.host THEN rest
            ELSE <<record.host>> \o rest

\* history.Uniq: the first occurrence of every record, in order.
RECURSIVE Uniq(_)
Uniq(records) ==
    IF records = <<>> THEN <<>>
    ELSE LET init == Uniq(SubSeq(records, 1, Len(records) - 1))
             record == records[Len(records)]
         IN IF \E i \in DOMAIN init : init[i] = record THEN init
            ELSE Append(init, record)

\* rand.Intn(n), as an index from 1.
Intn(n) == 1..n

\* history.Random without the cap of lines 216-218.
RandomUncapped(cnt, records) ==
    IF cnt <= 0 THEN {<<>>}
    ELSE {[i \in 1..cnt |-> records[draw[i]]] :
             draw \in [1..cnt -> Intn(Len(records))]}

\* history.Random(count, records): every output the draws can give.
Random(cnt, records) ==
    IF cnt <= 0 THEN {<<>>}
    ELSE LET c == IF cnt > Len(records) THEN Len(records) ELSE cnt
         IN {[i \in 1..c |-> records[draw[i]]] :
                draw \in [1..c -> Intn(Len(records))]}

\* SourcesRead of a run that opens the browser history whatever the source.
SourcesReadHistoryFirst(source) ==
    IF source = "history" THEN {"history"}
    ELSE IF source = "default_list" THEN {"history"}
    ELSE {"history", "file"}

\* The domain sources DomainsToTest reads for a -domain_source.
SourcesRead(source) ==
    IF source = "history" THEN {"history"}
    ELSE IF source = "default_list" THEN {}
    ELSE {"file"}

\* DomainsToTest without the fallbacks: what the source gives is taken as it
\* is.
DomainsToTestNoFallback(source, history, f) ==
    IF source = "history"
    THEN IF history.err THEN <<>> ELSE Uniq(ExternalHostnames(history.urls))
    ELSE IF source = "default_list" THEN defaultDomains
    ELSE loadDomainsFromFile(f).domains

\* runCliBenchmark:129-166: the candidate pool for a -domain_source.
DomainsToTest(source, history, f) ==
    IF source = "history"
    THEN IF history.err THEN defaultDomains
         ELSE IF Len(history.urls) = 0 THEN defaultDomains
         ELSE LET hosts == Uniq(ExternalHostnames(history.urls))
              IN IF Len(hosts) = 0 THEN defaultDomains ELSE hosts
    ELSE IF source = "default_list" THEN defaultDomains
    ELSE LET loaded == loadDomainsFromFile(f)
         IN IF loaded.err THEN defaultDomains
            ELSE IF Len(loaded.domains) = 0 THEN defaultDomains
            ELSE loaded.domains

\* runCliBenchmark:119-124: the nameservers are taken from the flag; no
\* nameserver is fatal.  The queues of the run are made one per nameserver.
ProcessNameservers ==
    /\ pc = "nameservers"
    /\ LET parsed == parseNameservers(nameservers, defaultNameservers) IN
       /\ currentNameservers' = parsed
       /\ pc' = IF Len(parsed) = 0 THEN "fatal" ELSE "domains"
       /\ Requests' = [q \in 1..Len(parsed) |-> <<>>]
       /\ closed' = [q \in 1..Len(parsed) |-> FALSE]
       /\ Results' = [q \in 1..Len(parsed) |-> <<>>]
       /\ ranging' = [q \in 1..Len(parsed) |-> 0]
       /\ exchanging' = [q \in 1..Len(parsed) |-> EmptyBag]
       /\ publishing' = [q \in 1..Len(parsed) |-> EmptyBag]
       /\ exited' = [q \in 1..Len(parsed) |-> 0]
       /\ delivered' = [q \in 1..Len(parsed) |-> <<>>]
    /\ UNCHANGED <<selectedDomains, record_type, dnssec, size, workers, flags, setup,
                   nsIdx, domIdx, answered, currentNsResults, allResults, summaryData,
                   ctxDone, exchanges, reuse>>

\* runCliBenchmark:127-171: the candidate pool is read from the domain source,
\* with the default list behind it; no domain is fatal.
ProcessDomains ==
    /\ pc = "domains"
    /\ accessed' = accessed \cup SourcesRead(domain_source)
    /\ domainsToTest' = DomainsToTest(domain_source, chrome, file)
    /\ pc' = IF Len(domainsToTest') = 0 THEN "fatal" ELSE "select"
    /\ UNCHANGED <<currentNameservers, selectedDomains, record_type, dnssec, size,
                   workers, flags, nsIdx, domIdx, answered, currentNsResults,
                   allResults, summaryData, Requests, closed, Results, pool, ctxDone,
                   exchanges, delivered,
                   reuse>>

\* SelectDomains without the test of lines 175-178: the run goes on with no
\* domain selected.
SelectDomainsUnchecked ==
    /\ pc = "select"
    /\ \E output \in Random(count, domainsToTest) :
          /\ selectedDomains' = output
          /\ pc' = "start"
    /\ UNCHANGED <<currentNameservers, record_type, dnssec, size, workers, flags, setup,
                   nsIdx, domIdx, answered, currentNsResults, allResults, summaryData,
                   Requests, closed, Results, pool, ctxDone, exchanges, delivered,
                   reuse>>

\* runCliBenchmark:174-179: count domains are drawn from the pool; none drawn is
\* fatal.
SelectDomains ==
    /\ pc = "select"
    /\ \E output \in Random(count, domainsToTest) :
          /\ selectedDomains' = output
          /\ pc' = IF Len(output) = 0 THEN "fatal" ELSE "start"
    /\ UNCHANGED <<currentNameservers, record_type, dnssec, size, workers, flags, setup,
                   nsIdx, domIdx, answered, currentNsResults, allResults, summaryData,
                   Requests, closed, Results, pool, ctxDone, exchanges, delivered,
                   reuse>>

\* The host of a nameserver address of NameserverNames.
NameserverHosts == <<"1.1.1.1", "208.67.222.222", "8.8.8.8", "9.9.9.9">>

\* A -nameservers value that names the nameservers of list: their hosts with
\* commas between.
RECURSIVE FlagNaming(_)
FlagNaming(list) ==
    IF list = <<>> THEN <<>>
    ELSE IF Len(list) = 1 THEN <<NameserverHosts[NameRank(list[1])]>>
    ELSE <<NameserverHosts[NameRank(list[1])], ",">> \o FlagNaming(Tail(list))

\* A file that lists the domains, one per line.
RECURSIVE FileListing(_)
FileListing(domains) ==
    IF domains = <<>> THEN <<>>
    ELSE <<Head(domains), "\n">> \o FileListing(Tail(domains))

\* history.Chrome finds no history file.
ChromeFails == [err |-> TRUE, urls |-> <<>>]

\* runCliBenchmark:118-179 is over: the flags named these nameservers and a
\* file with these domains, each of which was drawn once.
SetupDone ==
    /\ nameservers = FlagNaming(currentNameservers)
    /\ domain_source = "domains.txt"
    /\ count = Len(selectedDomains)
    /\ chrome = ChromeFails
    /\ file = [openable |-> TRUE, content |-> FileListing(selectedDomains)]
    /\ domainsToTest = selectedDomains
    /\ accessed = {"file"}

\* The nameserver lists explored: one and several nameservers, in and out of
\* string order, and one listed twice.
NameserverLists ==
    {l \in {<<"8.8.8.8:53">>,
            <<"1.1.1.1:53", "8.8.8.8:53">>,
            <<"8.8.8.8:53", "1.1.1.1:53">>,
            <<"8.8.8.8:53", "8.8.8.8:53">>,
            <<"8.8.8.8:53", "1.1.1.1:53", "8.8.8.8:53">>} : Len(l) <= MaxNameservers}

\* The selections explored: the first n names, and a selection that holds one
\* name twice (history.Random draws with repetition).
DomainSelections ==
    {[i \in 1..n |-> DomainNames[i]] : n \in 1..MaxDomains}
    \cup {<<DomainNames[1], DomainNames[1]>>}

\* runCliBenchmark:181-186: the set-up is done and the benchmarking loop is
\* about to start.
RunStarts ==
    /\ currentNameservers \in NameserverLists
    /\ selectedDomains \in DomainSelections
    /\ Len(currentNameservers) * Len(selectedDomains) <= MaxJobs
    /\ \E f \in FlagSettings : record_type = f[1] /\ dnssec = f[2]
    /\ size \in 1..MaxSize
    /\ workers \in 1..MaxWorkers
    /\ pc = "start"
    /\ nsIdx = 1
    /\ domIdx = 1
    /\ answered = 0
    /\ currentNsResults = <<>>
    /\ allResults = <<>>
    /\ summaryData = <<>>
    /\ Requests = [q \in 1..Len(currentNameservers) |-> <<>>]
    /\ closed = [q \in 1..Len(currentNameservers) |-> FALSE]
    /\ Results = [q \in 1..Len(currentNameservers) |-> <<>>]
    /\ ranging = [q \in 1..Len(currentNameservers) |-> 0]
    /\ exchanging = [q \in 1..Len(currentNameservers) |-> EmptyBag]
    /\ publishing = [q \in 1..Len(currentNameservers) |-> EmptyBag]
    /\ exited = [q \in 1..Len(currentNameservers) |-> 0]
    /\ ctxDone = FALSE
    /\ exchanges = 0
    /\ delivered = [q \in 1..Len(currentNameservers) |-> <<>>]
    /\ SetupDone

\* runCliBenchmark:187-191: a queue is started for each nameserver.
Init ==
    /\ RunStarts
    /\ reuse = FALSE


\* Round-trip times of the exchanges behind a summary: below one millisecond,
\* between two whole milliseconds, and a whole number of milliseconds.
SummaryRtts == {400000, 1500000, 3000000}

\* ------------------------------------------------------------ Query Executor
\* domain + "." (runCliBenchmark:198): the name followed by the root label.
Fqdn(domain) == <<domain, ".">>

\* The Answer sections a server can return for a question: none, or one record
\* owned by the queried name.
Responses(request) == {<<>>, <<request.RecordName>>}

\* KnownType without the lookup: every mnemonic is taken as known.
KnownTypeUnchecked(request) == TRUE

\* SendQuery, lines 107-112: the record type is looked up in dns.StringToType.
KnownType(request) == request.RecordType \in StringToType

\* SendQuery, lines 108-112: the Result of a Request whose type is unknown.
PreflightFailure(request) == Result(request, 0, <<>>, ErrInvalidType)

\* SendQueryResult without the early return on exchangeErr: what was read of the
\* response is kept in the failed Result.
SendQueryResultKeepsAnswers(request, in, rtt, exchangeErr) ==
    Result(request, rtt, [i \in 1..Len(in) |-> Answer(in[i])], exchangeErr)

\* SendQuery, lines 121-138: the Result built from what ExchangeContext returned
\* (the response's Answer section, the round-trip time, the error text or "").
SendQueryResult(request, in, rtt, exchangeErr) ==
    IF exchangeErr # ""
    THEN Result(request, rtt, <<>>, exchangeErr)
    ELSE Result(request, rtt, [i \in 1..Len(in) |-> Answer(in[i])], "")

\* What ExchangeContext can return once the query is on the wire: a response
\* with its round-trip time, or a transport failure after the time spent, with
\* whatever was read of the response.  The context the program hands over is
\* never done, so no exchange of the program ends in a cancellation.
ExchangeOutcomes(request) ==
    {[in |-> <<request.RecordName>>, rtt |-> d, err |-> ""] : d \in Rtts}
    \cup {[in |-> <<request.RecordName>>, rtt |-> d, err |-> ErrTransport] :
          d \in FailureRtts}

\* ------------------------------------------------------------------ workers
\* The goroutines of a queue run the same code and carry no identity: a queue's
\* pool is the number of workers at each position of startWorker, with what the
\* workers there hold.

\* WorkerReceive of a worker that pulls the next Request while it still holds
\* the one before: it stays in the range loop as well.
WorkerReceiveWhileBusy(q) ==
    /\ ranging[q] > 0
    /\ Requests[q] # <<>>
    /\ LET request == Head(Requests[q]) IN
       /\ Requests' = [Requests EXCEPT ![q] = Tail(@)]
       /\ exchanging' = [exchanging EXCEPT ![q] = @ (+) SetToBag({request})]
       /\ exchanges' = exchanges + 1
    /\ UNCHANGED <<config, orch, closed, Results, ranging, publishing, exited,
                   ctxDone, delivered>>

\* WorkerReceive of a worker that looks at the context first: when it is done
\* the worker leaves the Request and the exchange out and goes on with the
\* range loop, publishing nothing.
WorkerReceiveSkipsCancelled(q) ==
    /\ ranging[q] > 0
    /\ Requests[q] # <<>>
    /\ LET request == Head(Requests[q]) IN
       /\ Requests' = [Requests EXCEPT ![q] = Tail(@)]
       /\ IF ctxDone
          THEN UNCHANGED <<ranging, publishing, exchanging, exchanges>>
          ELSE /\ ranging' = [ranging EXCEPT ![q] = @ - 1]
               /\ IF ~KnownType(request)
                  THEN /\ publishing' = [publishing EXCEPT ![q] =
                                            @ (+) SetToBag({PreflightFailure(request)})]
                       /\ UNCHANGED <<exchanging, exchanges>>
                  ELSE /\ exchanging' = [exchanging EXCEPT ![q] =
                                            @ (+) SetToBag({request})]
                       /\ exchanges' = exchanges + 1
                       /\ UNCHANGED publishing
    /\ UNCHANGED <<config, orch, closed, Results, exited, ctxDone, delivered>>

\* startWorker, lines 84-90 with SendQuery up to its call of ExchangeContext:
\* a waiting worker receives the next Request.  An unknown record type fails
\* before any exchange; a context that is already done fails the dial (rtt 0);
\* otherwise the exchange is in flight.
WorkerReceive(q) ==
    /\ ranging[q] > 0
    /\ Requests[q] # <<>>
    /\ LET request == Head(Requests[q]) IN
       /\ Requests' = [Requests EXCEPT ![q] = Tail(@)]
       /\ ranging' = [ranging EXCEPT ![q] = @ - 1]
       /\ IF ~KnownType(request)
          THEN /\ publishing' = [publishing EXCEPT ![q] =
                                    @ (+) SetToBag({PreflightFailure(request)})]
               /\ UNCHANGED <<exchanging, exchanges>>
          ELSE IF ctxDone
          THEN /\ publishing' = [publishing EXCEPT ![q] =
                      @ (+) SetToBag({SendQueryResult(request, <<>>, 0, ErrCanceled)})]
               /\ exchanges' = exchanges + 1
               /\ UNCHANGED exchanging
          ELSE /\ exchanging' = [exchanging EXCEPT ![q] = @ (+) SetToBag({request})]
               /\ exchanges' = exchanges + 1
               /\ UNCHANGED publishing
    /\ UNCHANGED <<config, orch, closed, Results, exited, ctxDone, delivered>>

\* ExchangeReturn of a worker that publishes successes only: after a failed
\* exchange it goes back to the range loop with nothing to publish.
ExchangeReturnDropsFailures(q) ==
    \E request \in BagToSet(exchanging[q]) :
       \E o \in ExchangeOutcomes(request) :
          /\ exchanging' = [exchanging EXCEPT ![q] = @ (-) SetToBag({request})]
          /\ IF o.err = ""
             THEN /\ publishing' = [publishing EXCEPT ![q] =
                        @ (+) SetToBag({SendQueryResult(request, o.in, o.rtt, o.err)})]
                  /\ UNCHANGED ranging
             ELSE /\ ranging' = [ranging EXCEPT ![q] = @ + 1]
                  /\ UNCHANGED publishing
          /\ UNCHANGED <<config, orch, Requests, closed, Results, exited,
                         ctxDone, exchanges, delivered>>

\* ExchangeReturn of a worker that tries a failed exchange once more before it
\* builds the Result.
ExchangeReturnRetries(q) ==
    \E request \in BagToSet(exchanging[q]) :
       \E o \in ExchangeOutcomes(request) :
          /\ exchanging' = [exchanging EXCEPT ![q] = @ (-) SetToBag({request})]
          /\ publishing' = [publishing EXCEPT ![q] =
                @ (+) SetToBag({SendQueryResult(request, o.in, o.rtt, o.err)})]
          /\ exchanges' = IF o.err # "" THEN exchanges + 1 ELSE exchanges
          /\ UNCHANGED <<config, orch, Requests, closed, Results, ranging, exited,
                         ctxDone, delivered>>

\* SendQuery, lines 121-138: ExchangeContext returns to a worker and the Result
\* is built.
ExchangeReturn(q) ==
    \E request \in BagToSet(exchanging[q]) :
       \E o \in ExchangeOutcomes(request) :
          /\ exchanging' = [exchanging EXCEPT ![q] = @ (-) SetToBag({request})]
          /\ publishing' = [publishing EXCEPT ![q] =
                @ (+) SetToBag({SendQueryResult(request, o.in, o.rtt, o.err)})]
          /\ UNCHANGED <<config, orch, Requests, closed, Results, ranging, exited,
                         ctxDone, exchanges, delivered>>

\* WorkerPublish of a worker that sends its Result and still holds it to send
\* again.
WorkerPublishKeepsResult(q) ==
    /\ Len(Results[q]) < size
    /\ \E result \in BagToSet(publishing[q]) :
          /\ Results' = [Results EXCEPT ![q] = Append(@, result)]
          /\ delivered' = [delivered EXCEPT ![q] = Append(@, result)]
    /\ UNCHANGED <<config, orch, Requests, closed, pool, ctxDone, exchanges>>

\* WorkerPublish of a worker that hands its Result to the orchestrator's
\* collection instead of the Results channel.
WorkerPublishIntoCollection(q) ==
    /\ \E result \in BagToSet(publishing[q]) :
          /\ currentNsResults' = Append(currentNsResults, result)
          /\ delivered' = [delivered EXCEPT ![q] = Append(@, result)]
          /\ publishing' = [publishing EXCEPT ![q] = @ (-) SetToBag({result})]
          /\ ranging' = [ranging EXCEPT ![q] = @ + 1]
    /\ UNCHANGED <<config, pc, nsIdx, domIdx, answered, allResults, summaryData,
                   Requests, closed, Results, exchanging, exited, ctxDone, exchanges>>

\* WorkerPublish of a worker that does not wait for room: with a full buffer it
\* drops its Result and goes back to the range loop.
WorkerPublishDropsWhenFull(q) ==
    /\ \E result \in BagToSet(publishing[q]) :
          /\ IF Len(Results[q]) < size
             THEN /\ Results' = [Results EXCEPT ![q] = Append(@, result)]
                  /\ delivered' = [delivered EXCEPT ![q] = Append(@, result)]
             ELSE UNCHANGED <<Results, delivered>>
          /\ publishing' = [publishing EXCEPT ![q] = @ (-) SetToBag({result})]
          /\ ranging' = [ranging EXCEPT ![q] = @ + 1]
    /\ UNCHANGED <<config, orch, Requests, closed, exchanging, exited, ctxDone,
                   exchanges>>

\* startWorker, line 96: results <- &result, possible when the buffer has room;
\* the worker goes back to the range loop.
WorkerPublish(q) ==
    /\ Len(Results[q]) < size
    /\ \E result \in BagToSet(publishing[q]) :
          /\ Results' = [Results EXCEPT ![q] = Append(@, result)]
          /\ delivered' = [delivered EXCEPT ![q] = Append(@, result)]
          /\ publishing' = [publishing EXCEPT ![q] = @ (-) SetToBag({result})]
          /\ ranging' = [ranging EXCEPT ![q] = @ + 1]
    /\ UNCHANGED <<config, orch, Requests, closed, exchanging, exited, ctxDone,
                   exchanges>>

\* WorkerExit of a worker that returns as soon as Requests is closed, pending
\* Requests or not.
WorkerExitOnClose(q) ==
    /\ ranging[q] > 0
    /\ closed[q]
    /\ ranging' = [ranging EXCEPT ![q] = @ - 1]
    /\ exited' = [exited EXCEPT ![q] = @ + 1]
    /\ UNCHANGED <<config, orch, Requests, closed, Results, exchanging, publishing,
                   ctxDone, exchanges, delivered>>

\* startWorker, lines 84 and 98: the range loop of a waiting worker ends when
\* Requests is closed and drained.
WorkerExit(q) ==
    /\ ranging[q] > 0
    /\ Requests[q] = <<>>
    /\ closed[q]
    /\ ranging' = [ranging EXCEPT ![q] = @ - 1]
    /\ exited' = [exited EXCEPT ![q] = @ + 1]
    /\ UNCHANGED <<config, orch, Requests, closed, Results, exchanging, publishing,
                   ctxDone, exchanges, delivered>>

\* What SendQuery makes of an exchange that the cancellation aborts:
\* ExchangeContext returns the context's error after the time spent (rtt), with
\* what had been read of the response.
AbortedResults(requests, rtt) ==
    BagOfAll(LAMBDA request :
                SendQueryResult(request, <<request.RecordName>>, rtt, ErrCanceled),
             requests)

\* The cancellation scope of a run is cancelled, as the specification describes
\* it: every Query Executor call in flight aborts and surfaces a cancellation
\* failure to its worker, which then holds the Result to publish.  No step of
\* the program does this: both orchestrators hand context.Background() to their
\* Requests.  The step is part of CancelSpec only.
Cancel ==
    /\ ~ctxDone
    /\ pc # "done"
    /\ ctxDone' = TRUE
    /\ exchanging' = [q \in Queues |-> EmptyBag]
    /\ \E rtt \in FailureRtts :
          publishing' = [q \in Queues |->
                            publishing[q] (+) AbortedResults(exchanging[q], rtt)]
    /\ UNCHANGED <<config, orch, Requests, closed, Results, ranging, exited,
                   exchanges, delivered>>

\* -------------------------------------------------------------- orchestrator
\* RequestFor without the trailing dot: the domain goes out as it was selected.
RequestForUnqualified(ns, i) ==
    Request(ns, record_type, <<selectedDomains[i]>>, dnssec)

\* The Request submitted for the i-th selected domain to nameserver ns
\* (runCliBenchmark:194-200).
RequestFor(ns, i) == Request(ns, record_type, Fqdn(selectedDomains[i]), dnssec)

\* dnsqueue.StartQueue: the channels are made and the workers started.
StartQueue ==
    /\ pc = "start"
    /\ ranging' = [ranging EXCEPT ![nsIdx] = workers]
    /\ pc' = "submit"
    /\ domIdx' = 1
    /\ UNCHANGED <<config, nsIdx, answered, currentNsResults, allResults, summaryData,
                   Requests, closed, Results, exchanging, publishing, exited, ctxDone,
                   exchanges, delivered>>

\* Submit on a buffer that grows without limit: the send never waits.
SubmitUnbounded ==
    /\ pc = "submit"
    /\ Requests' = [Requests EXCEPT ![nsIdx] =
                       Append(@, RequestFor(currentNameservers[nsIdx], domIdx))]
    /\ domIdx' = domIdx + 1
    /\ pc' = IF domIdx = N THEN "close" ELSE "submit"
    /\ UNCHANGED <<config, nsIdx, answered, currentNsResults, allResults, summaryData,
                   closed, Results, pool, ctxDone, exchanges, delivered>>

\* Submit with SendCompletionSignal inside the loop: Requests is closed after
\* every send.
SubmitThenSignal ==
    /\ pc = "submit"
    /\ Len(Requests[nsIdx]) < size
    /\ Requests' = [Requests EXCEPT ![nsIdx] =
                       Append(@, RequestFor(currentNameservers[nsIdx], domIdx))]
    /\ closed' = [closed EXCEPT ![nsIdx] = TRUE]
    /\ domIdx' = domIdx + 1
    /\ pc' = IF domIdx = N THEN "close" ELSE "submit"
    /\ UNCHANGED <<config, nsIdx, answered, currentNsResults, allResults, summaryData,
                   Results, pool, ctxDone, exchanges, delivered>>

\* runCliBenchmark:193-202: q.Requests <- req, possible when the buffer has room.
Submit ==
    /\ pc = "submit"
    /\ Len(Requests[nsIdx]) < size
    /\ Requests' = [Requests EXCEPT ![nsIdx] =
                       Append(@, RequestFor(currentNameservers[nsIdx], domIdx))]
    /\ domIdx' = domIdx + 1
    /\ pc' = IF domIdx = N THEN "close" ELSE "submit"
    /\ UNCHANGED <<config, nsIdx, answered, currentNsResults, allResults, summaryData,
                   closed, Results, pool, ctxDone, exchanges, delivered>>

\* Queue.SendCompletionSignal (runCliBenchmark:203), then lines 205-206.
SendCompletionSignal ==
    /\ pc = "close"
    /\ closed' = [closed EXCEPT ![nsIdx] = TRUE]
    /\ answered' = 0
    /\ currentNsResults' = <<>>
    /\ pc' = "collect"
    /\ UNCHANGED <<config, nsIdx, domIdx, allResults, summaryData, Requests, Results,
                   pool, ctxDone, exchanges, delivered>>

\* runCliBenchmark:207-218: one Result is read from q.Results and kept.
Collect ==
    /\ pc = "collect"
    /\ answered # N
    /\ Results[nsIdx] # <<>>
    /\ currentNsResults' = Append(currentNsResults, Head(Results[nsIdx]))
    /\ Results' = [Results EXCEPT ![nsIdx] = Tail(@)]
    /\ answered' = answered + 1
    /\ UNCHANGED <<config, pc, nsIdx, domIdx, allResults, summaryData, Requests, closed,
                   pool, ctxDone, exchanges, delivered>>

\* MapPut that keeps the value a key already has.
MapPutKeepsFirst(m, k, v) ==
    [x \in DOMAIN m \cup {k} |-> IF x \in DOMAIN m THEN m[x] ELSE v]

\* allResults[ns] = currentNsResults: a Go map assignment.
MapPut(m, k, v) == [x \in DOMAIN m \cup {k} |-> IF x = k THEN v ELSE m[x]]

\* FinishBatch with the count off by one: the batch is taken as complete when
\* one Result is still to come.
FinishBatchEarly ==
    /\ pc = "collect"
    /\ answered + 1 >= N
    /\ allResults' = MapPut(allResults, currentNameservers[nsIdx], currentNsResults)
    /\ IF nsIdx < Len(currentNameservers)
       THEN /\ nsIdx' = nsIdx + 1
            /\ pc' = "start"
       ELSE /\ nsIdx' = nsIdx
            /\ pc' = "summary"
    /\ UNCHANGED <<config, domIdx, answered, currentNsResults, summaryData, Requests,
                   closed, Results, pool, ctxDone, exchanges, delivered>>

\* runCliBenchmark:208-209, 219 and the loop header 187: the batch is complete, it
\* is stored and the next nameserver (or the summary) follows.
FinishBatch ==
    /\ pc = "collect"
    /\ answered = N
    /\ allResults' = MapPut(allResults, currentNameservers[nsIdx], currentNsResults)
    /\ IF nsIdx < Len(currentNameservers)
       THEN /\ nsIdx' = nsIdx + 1
            /\ pc' = "start"
       ELSE /\ nsIdx' = nsIdx
            /\ pc' = "summary"
    /\ UNCHANGED <<config, domIdx, answered, currentNsResults, summaryData, Requests,
                   closed, Results, pool, ctxDone, exchanges, delivered>>

\* ------------------------------------------------------------------ summary
\* 1e6: nanoseconds per millisecond (runCliBenchmark:278).
NanosPerMs == 1000000

\* runCliBenchmark:244-248: the map's keys in Go's string order.
RECURSIVE SortedKeys(_)
SortedKeys(keys) ==
    IF keys = {} THEN <<>>
    ELSE LET first == CHOOSE k \in keys : \A o \in keys : NameRank(k) <= NameRank(o)
         IN <<first>> \o SortedKeys(keys \ {first})

\* SuccessfulQueriesOf without the test of Error: every Result counts.
SuccessfulQueriesCountsAll(results) == Len(results)

\* runCliBenchmark:265-274: nsSuccessfulQueries, the Results whose Error is "".
RECURSIVE SuccessfulQueriesOf(_)
SuccessfulQueriesOf(results) ==
    IF results = <<>> THEN 0
    ELSE (IF Head(results).Error = "" THEN 1 ELSE 0) + SuccessfulQueriesOf(Tail(results))

\* runCliBenchmark:265-274: nsTotalDuration, summed over the same Results.
RECURSIVE TotalDurationOf(_)
TotalDurationOf(results) ==
    IF results = <<>> THEN 0
    ELSE (IF Head(results).Error = "" THEN Head(results).Duration ELSE 0)
         + TotalDurationOf(Tail(results))

\* AverageMsOf that takes the first Result's elapsed time for the mean.
AverageMsOfFirst(results) ==
    IF SuccessfulQueriesOf(results) > 0
    THEN [num |-> (IF Head(results).Error = "" THEN Head(results).Duration ELSE 0)
                  \div NanosPerMs,
          den |-> 1]
    ELSE [num |-> 0, den |-> 1]

\* runCliBenchmark:276-282: avgMs, a float64 kept here as the exact quotient
\* num/den; it stays float64's zero value when nothing succeeded.
AverageMsOf(results) ==
    IF SuccessfulQueriesOf(results) > 0
    THEN [num |-> TotalDurationOf(results) \div NanosPerMs,
          den |-> SuccessfulQueriesOf(results)]
    ELSE [num |-> 0, den |-> 1]

\* float64 comparisons of two quotients with positive denominators.
FloatEq(x, y) == x.num * y.den = y.num * x.den
FloatLt(x, y) == x.num * y.den < y.num * x.den
FloatIsZero(x) == x.num = 0
FloatIsPositive(x) == x.num > 0

\* runCliBenchmark:287-292: the SummaryEntry of one nameserver.
SummaryEntry(ns, results) ==
    [Nameserver |-> ns,
     AverageMs |-> AverageMsOf(results),
     SuccessfulQueries |-> SuccessfulQueriesOf(results),
     TotalQueries |-> Len(results)]

\* runCliBenchmark:258-293: one entry per key of allResults, in key order.
SummaryOf(all) ==
    LET keys == SortedKeys(DOMAIN all)
    IN [i \in 1..Len(keys) |-> SummaryEntry(keys[i], all[keys[i]])]

\* Less without its two tests for an average of zero.
LessByAverageOnly(a, b) ==
    IF FloatEq(a.AverageMs, b.AverageMs)
    THEN a.SuccessfulQueries > b.SuccessfulQueries
    ELSE FloatLt(a.AverageMs, b.AverageMs)

\* Less with one of its two tests for an average of zero: an entry with a
\* positive average goes before one with an average of zero, and nothing is
\* said of the other way round.
LessZeroHalfChecked(a, b) ==
    IF FloatEq(a.AverageMs, b.AverageMs)
    THEN a.SuccessfulQueries > b.SuccessfulQueries
    ELSE IF FloatIsZero(b.AverageMs) /\ FloatIsPositive(a.AverageMs) THEN TRUE
    ELSE FloatLt(a.AverageMs, b.AverageMs)

\* runCliBenchmark:299-310: the less function handed to sort.Slice.
Less(a, b) ==
    IF FloatEq(a.AverageMs, b.AverageMs)
    THEN a.SuccessfulQueries > b.SuccessfulQueries
    ELSE IF FloatIsZero(a.AverageMs) /\ FloatIsPositive(b.AverageMs) THEN FALSE
    ELSE IF FloatIsZero(b.AverageMs) /\ FloatIsPositive(a.AverageMs) THEN TRUE
    ELSE FloatLt(a.AverageMs, b.AverageMs)

Swap(data, i, j) == [data EXCEPT ![i] = data[j], ![j] = data[i]]

\* The inner loop of Go's insertion sort: data[j] sinks while it is less than
\* its left neighbour.
RECURSIVE SinkLeft(_, _)
SinkLeft(data, j) ==
    IF j > 1 /\ Less(data[j], data[j - 1])
    THEN SinkLeft(Swap(data, j, j - 1), j - 1)
    ELSE data

\* sort.Slice on a slice of at most 12 elements is an insertion sort.
RECURSIVE InsertionSortFrom(_, _)
InsertionSortFrom(data, i) ==
    IF i > Len(data) THEN data
    ELSE InsertionSortFrom(SinkLeft(data, i), i + 1)

\* runCliBenchmark:299: sort.Slice(summaryData, less).
SortSlice(data) == InsertionSortFrom(data, 2)

\* runCliBenchmark:244-316: the summary entries are built and ranked.
Summarize ==
    /\ pc = "summary"
    /\ summaryData' = SortSlice(SummaryOf(allResults))
    /\ pc' = "done"
    /\ UNCHANGED <<config, nsIdx, domIdx, answered, currentNsResults, allResults,
                   Requests, closed, Results, pool, ctxDone, exchanges,
                   delivered>>

Next ==
    \/ StartQueue
    \/ Submit
    \/ SendCompletionSignal
    \/ Collect
    \/ FinishBatch
    \/ Summarize
    \/ \E q \in Queues : WorkerReceive(q)
    \/ \E q \in Queues : ExchangeReturn(q)
    \/ \E q \in Queues : WorkerPublish(q)
    \/ \E q \in Queues : WorkerExit(q)

Spec == Init /\ [][Next]_vars

\* A step of the orchestrator's goroutine.
OrchestratorStep ==
    \/ StartQueue
    \/ Submit
    \/ SendCompletionSignal
    \/ Collect
    \/ FinishBatch
    \/ Summarize

\* A step of one of the worker goroutines.
WorkerStep ==
    \E q \in Queues :
       WorkerReceive(q) \/ ExchangeReturn(q) \/ WorkerPublish(q) \/ WorkerExit(q)

\* Fairness: the Go scheduler does not leave every goroutine that can take a
\* step waiting forever, and every call of ExchangeContext returns (the
\* client's timeout).  Nothing obliges the holder of the context to cancel it.
Fairness == WF_vars(OrchestratorStep \/ WorkerStep)

\* The runs checked for progress: every batch size against one nameserver, and
\* single-domain batches against several.
FairInit ==
    /\ Init
    /\ Len(currentNameservers) > 1 => Len(selectedDomains) = 1

FairSpec == FairInit /\ [][Next]_vars /\ Fairness

\* A run whose cancellation scope can be cancelled at any moment, by a holder
\* that nothing obliges to do so.
CancelNext == Next \/ Cancel

CancelSpec == FairInit /\ [][CancelNext]_vars /\ Fairness

\* ---------------------------------------------------------- a reused queue
\* The arrangement the program does not take: dnsqueue.StartQueue is called
\* once, the batch of every nameserver goes through that queue (the first), and
\* SendCompletionSignal is called after the last batch only.  The workers and
\* the channels are those of dnsqueue.

\* StartQueue, once, before the first batch.
ReuseStartQueue ==
    /\ pc = "start"
    /\ ranging' = [ranging EXCEPT ![1] = workers]
    /\ pc' = "submit"
    /\ domIdx' = 1
    /\ UNCHANGED <<config, nsIdx, answered, currentNsResults, allResults, summaryData,
                   Requests, closed, Results, exchanging, publishing, exited, ctxDone,
                   exchanges, delivered>>

\* A Request of the nameserver under test is sent on the one queue's Requests.
ReuseSubmit ==
    /\ pc = "submit"
    /\ Len(Requests[1]) < size
    /\ Requests' = [Requests EXCEPT ![1] =
                       Append(@, RequestFor(currentNameservers[nsIdx], domIdx))]
    /\ domIdx' = domIdx + 1
    /\ pc' = IF domIdx = N THEN "close" ELSE "submit"
    /\ UNCHANGED <<config, nsIdx, answered, currentNsResults, allResults, summaryData,
                   closed, Results, pool, ctxDone, exchanges, delivered>>

\* The batch is submitted: Requests is closed if it was the last batch, and the
\* collection of the batch starts.
ReuseSendCompletionSignal ==
    /\ pc = "close"
    /\ closed' = [closed EXCEPT ![1] = (nsIdx = Len(currentNameservers))]
    /\ answered' = 0
    /\ currentNsResults' = <<>>
    /\ pc' = "collect"
    /\ UNCHANGED <<config, nsIdx, domIdx, allResults, summaryData, Requests, Results,
                   pool, ctxDone, exchanges, delivered>>

\* One Result is read from the one queue's Results and kept.
ReuseCollect ==
    /\ pc = "collect"
    /\ answered # N
    /\ Results[1] # <<>>
    /\ currentNsResults' = Append(currentNsResults, Head(Results[1]))
    /\ Results' = [Results EXCEPT ![1] = Tail(@)]
    /\ answered' = answered + 1
    /\ UNCHANGED <<config, pc, nsIdx, domIdx, allResults, summaryData, Requests, closed,
                   pool, ctxDone, exchanges, delivered>>

\* The batch is complete and stored; the next nameserver's batch is submitted
\* to the same queue, or the summary follows.
ReuseFinishBatch ==
    /\ pc = "collect"
    /\ answered = N
    /\ allResults' = MapPut(allResults, currentNameservers[nsIdx], currentNsResults)
    /\ IF nsIdx < Len(currentNameservers)
       THEN /\ nsIdx' = nsIdx + 1
            /\ domIdx' = 1
            /\ pc' = "submit"
       ELSE /\ nsIdx' = nsIdx
            /\ domIdx' = domIdx
            /\ pc' = "summary"
    /\ UNCHANGED <<config, answered, currentNsResults, summaryData, Requests,
                   closed, Results, pool, ctxDone, exchanges, delivered>>

\* The runs compared: several nameservers, in either arrangement.
ReuseInit ==
    /\ RunStarts
    /\ Len(currentNameservers) > 1
    /\ reuse \in BOOLEAN

ReuseNext ==
    \/ ~reuse /\ StartQueue
    \/ ~reuse /\ Submit
    \/ ~reuse /\ SendCompletionSignal
    \/ ~reuse /\ Collect
    \/ ~reuse /\ FinishBatch
    \/ reuse /\ ReuseStartQueue
    \/ reuse /\ ReuseSubmit
    \/ reuse /\ ReuseSendCompletionSignal
    \/ reuse /\ ReuseCollect
    \/ reuse /\ ReuseFinishBatch
    \/ Summarize
    \/ \E q \in Queues : WorkerReceive(q)
    \/ \E q \in Queues : ExchangeReturn(q)
    \/ \E q \in Queues : WorkerPublish(q)
    \/ \E q \in Queues : WorkerExit(q)

ReuseSpec == ReuseInit /\ [][ReuseNext]_vars

\* ------------------------------------------------- the summary on its own
\* What one exchange of a finished batch came to: answered after rtt, or failed.
SummaryOutcomes ==
    {[rtt |-> t, err |-> ""] : t \in SummaryRtts}
    \cup {[rtt |-> t, err |-> ErrTransport] : t \in FailureRtts}

\* The outcomes of a batch of n Requests, one per Request; batches that differ
\* only in which Request got which outcome are taken once.
OutcomeSeqs(n) ==
    {o \in [1..n -> SummaryOutcomes] :
        \A i \in 1..n : \A j \in 1..n : i < j => o[i].rtt <= o[j].rtt}

\* The Results a nameserver's batch gives for these outcomes (SendQuery).
BatchOf(ns, o) ==
    [i \in DOMAIN o |->
        SendQueryResult(RequestFor(ns, i),
                        IF o[i].err = "" THEN <<RequestFor(ns, i).RecordName>> ELSE <<>>,
                        o[i].rtt, o[i].err)]

\* The first k nameserver addresses, in string order and in the reverse order.
RankedLists(k) ==
    {[i \in 1..k |-> NameserverNames[i]], [i \in 1..k |-> NameserverNames[k + 1 - i]]}

\* runCliBenchmark:236: the benchmarking loop is over, every nameserver's batch
\* is stored in allResults and every queue's workers have exited.
SummaryInit ==
    /\ \E k \in 1..MaxRanked : \E n \in 1..MaxAnswers :
          /\ k * n <= MaxRankedJobs
          /\ currentNameservers \in RankedLists(k)
          /\ selectedDomains = [i \in 1..n |-> DomainNames[i]]
    /\ record_type = "A"
    /\ dnssec = FALSE
    /\ size = 1
    /\ workers = 1
    /\ pc = "summary"
    /\ nsIdx = Len(currentNameservers)
    /\ domIdx = Len(selectedDomains) + 1
    /\ answered = Len(selectedDomains)
    /\ \E o \in [1..Len(currentNameservers) -> OutcomeSeqs(Len(selectedDomains))] :
          /\ delivered = [q \in 1..Len(currentNameservers) |->
                             BatchOf(currentNameservers[q], o[q])]
          /\ allResults = [ns \in {currentNameservers[q] : q \in 1..Len(currentNameservers)} |->
                             BatchOf(ns, o[CHOOSE q \in 1..Len(currentNameservers) :
                                              currentNameservers[q] = ns])]
    /\ currentNsResults = allResults[currentNameservers[nsIdx]]
    /\ summaryData = <<>>
    /\ Requests = [q \in 1..Len(currentNameservers) |-> <<>>]
    /\ closed = [q \in 1..Len(currentNameservers) |-> TRUE]
    /\ Results = [q \in 1..Len(currentNameservers) |-> <<>>]
    /\ ranging = [q \in 1..Len(currentNameservers) |-> 0]
    /\ exchanging = [q \in 1..Len(currentNameservers) |-> EmptyBag]
    /\ publishing = [q \in 1..Len(currentNameservers) |-> EmptyBag]
    /\ exited = [q \in 1..Len(currentNameservers) |-> workers]
    /\ ctxDone = FALSE
    /\ exchanges = Len(currentNameservers) * Len(selectedDomains)
    /\ SetupDone
    /\ reuse = FALSE

\* runCliBenchmark:244-332: what is left of the run is the summary.
SummaryNext == Summarize

SummarySpec == SummaryInit /\ [][SummaryNext]_vars

\* ------------------------------------------------- the run from its flags
\* URLs of the browser history: one of an external host, one of a host that is
\* its own registrable domain, one without a public suffix, one that does not
\* parse.
UrlExternal ==
    [host |-> "www.google.com", hostErr |-> FALSE, suffix |-> "google.com",
     suffixErr |-> FALSE]
UrlRegistrable ==
    [host |-> "google.com", hostErr |-> FALSE, suffix |-> "google.com",
     suffixErr |-> FALSE]
UrlLocal ==
    [host |-> "localhost", hostErr |-> FALSE, suffix |-> "", suffixErr |-> TRUE]
UrlBroken == [host |-> "", hostErr |-> TRUE, suffix |-> "", suffixErr |-> TRUE]

\* What history.Chrome returns: an error, or the URLs it found (never none).
ChromeOutcomes ==
    {ChromeFails,
     [err |-> FALSE, urls |-> <<UrlLocal, UrlRegistrable, UrlBroken>>],
     [err |-> FALSE, urls |-> <<UrlExternal, UrlRegistrable, UrlExternal>>]}

\* The file -domain_source names when none can be opened.
NoFile == [openable |-> FALSE, content |-> <<>>]

\* The domain files explored: none, an empty one, one of blank lines, one that
\* lists a domain twice, one with blanks and a carriage return.
DomainFiles ==
    {NoFile,
     [openable |-> TRUE, content |-> <<>>],
     [openable |-> TRUE, content |-> <<" ", "\n", "\n">>],
     [openable |-> TRUE, content |-> <<"google.com", "\n", "google.com", "\n">>],
     [openable |-> TRUE, content |-> <<" ", "amazon.com", "\r", "\n", "google.com">>]}

\* The -nameservers values explored: none, one host, two elements with blanks
\* and a port.
NameserverFlags ==
    {<<>>,
     <<"8.8.8.8">>,
     <<" ", ",", " ">>,
     <<" ", "8.8.8.8", ":", "53", " ", ",", ",", "1.1.1.1">>}

\* runCliBenchmark has taken no step: nothing is parsed, read, selected or
\* opened.  The queues take one worker and a buffer of one.
RunNotStarted ==
    /\ reuse = FALSE
    /\ record_type = "A"
    /\ dnssec = FALSE
    /\ size = 1
    /\ workers = 1
    /\ pc = "nameservers"
    /\ currentNameservers = <<>>
    /\ selectedDomains = <<>>
    /\ domainsToTest = <<>>
    /\ accessed = {}
    /\ nsIdx = 1
    /\ domIdx = 1
    /\ answered = 0
    /\ currentNsResults = <<>>
    /\ allResults = <<>>
    /\ summaryData = <<>>
    /\ Requests = <<>>
    /\ closed = <<>>
    /\ Results = <<>>
    /\ ranging = <<>>
    /\ exchanging = <<>>
    /\ publishing = <<>>
    /\ exited = <<>>
    /\ ctxDone = FALSE
    /\ exchanges = 0
    /\ delivered = <<>>

\* main: the flags are parsed and runCliBenchmark is about to start.
SetupInit ==
    /\ nameservers \in NameserverFlags
    /\ domain_source \in {"history", "default_list", "domains.txt"}
    /\ count \in (0 - 1)..MaxCount
    /\ chrome \in ChromeOutcomes
    /\ file \in DomainFiles
    /\ domain_source # "history" => chrome = ChromeFails
    /\ domain_source \in {"history", "default_list"} => file = NoFile
    /\ Len(parseNameservers(nameservers, defaultNameservers)) > 2 => count <= 1
    /\ RunNotStarted

\* The context of the run is made at line 185 and a fatal exit ends the
\* process: nothing but runCliBenchmark's own steps happens before the one or
\* after the other.
SetupNext ==
    \/ ProcessNameservers
    \/ ProcessDomains
    \/ SelectDomains
    \/ (pc \notin {"nameservers", "domains", "select", "fatal"} /\ Next)

SetupSpec == SetupInit /\ [][SetupNext]_vars

\* ------------------------------------------- parseNameservers on its own
\* What a -nameservers value is made of: separators, blanks, a host, a port.
FlagTokens == {",", " ", ":", "9.9.9.9", "5353"}

\* Every text of at most n tokens of the set tokens.
Texts(tokens, n) == UNION {[1..k -> tokens] : k \in 0..n}

\* Any -nameservers value; the domains come from the default list.
ParseInit ==
    /\ nameservers \in Texts(FlagTokens, MaxFlagLen)
    /\ domain_source = "default_list"
    /\ count = 1
    /\ chrome = ChromeFails
    /\ file = NoFile
    /\ RunNotStarted

\* runCliBenchmark:119: parseNameservers is applied to the flag.
ParseNext == ProcessNameservers

ParseSpec == ParseInit /\ [][ParseNext]_vars

\* ---------------------------------------- loadDomainsFromFile on its own
\* A line as long as the Scanner's buffer.
RECURSIVE Doubled(_, _)
Doubled(str, times) == IF times = 0 THEN str ELSE Doubled(str \o str, times - 1)
LongLine == Doubled("a", 16)

\* What a domain file is made of: line ends, blanks, a domain, a long line.
FileTokens == {"\n", "\r", " ", "a.com", LongLine}

\* Any domain file, or none; the nameservers are the defaults.
FileInit ==
    /\ nameservers = <<>>
    /\ domain_source = "domains.txt"
    /\ count = 1
    /\ chrome = ChromeFails
    /\ \/ file = NoFile
       \/ \E content \in Texts(FileTokens, MaxFileLen) :
             file = [openable |-> TRUE, content |-> content]
    /\ RunNotStarted

\* runCliBenchmark:119-171: up to the candidate pool, loadDomainsFromFile
\* applied to the file.
FileNext == ProcessNameservers \/ ProcessDomains

FileSpec == FileInit /\ [][FileNext]_vars

\* runCliBenchmark:318-331: the nameservers printed under "Fastest
\* Nameserver(s)", the loop over the ranked entries from entry i on.
RECURSIVE FastestFrom(_, _, _)
FastestFrom(data, i, fastestAvg) ==
    IF i > Len(data) THEN {}
    ELSE IF FloatEq(data[i].AverageMs, fastestAvg) /\ data[i].SuccessfulQueries > 0
    THEN {data[i].Nameserver} \cup FastestFrom(data, i + 1, fastestAvg)
    ELSE IF FloatLt(fastestAvg, data[i].AverageMs) /\ ~FloatIsZero(data[i].AverageMs)
    THEN {}
    ELSE FastestFrom(data, i + 1, fastestAvg)

\* runCliBenchmark:318-331.
Fastest(data) ==
    IF Len(data) > 0 THEN FastestFrom(data, 1, data[1].AverageMs) ELSE {}

\* ------------------------------------------------------- the UI's Submit
\* ui.COUNT (ui.go:25).
COUNT == 50

\* A second URL of an external host.
UrlExternalToo ==
    [host |-> "mail.google.com", hostErr |-> FALSE, suffix |-> "google.com",
     suffixErr |-> FALSE]

\* What history.Chrome returns to the handler: as for the CLI, or two external
\* hosts.
UiHistories ==
    ChromeOutcomes \cup {[err |-> FALSE, urls |-> <<UrlExternal, UrlExternalToo>>]}

\* Queue.Add (dnsqueue.go:60-73): the Request that is sent on Requests.
Add(dest, rtype, name, verify) == Request(dest, rtype, name, verify)

\* ui.Submit:93-97: history.Chrome reads the browser history; the handler
\* panics on its error.
UiHistory ==
    /\ pc = "ui_history"
    /\ accessed' = accessed \cup {"history"}
    /\ pc' = IF chrome.err THEN "ui_panic" ELSE "ui_start"
    /\ UNCHANGED <<currentNameservers, selectedDomains, record_type, dnssec, size,
                   workers, flags, domainsToTest, reuse, nsIdx, domIdx, answered,
                   currentNsResults, allResults, summaryData, Requests, closed,
                   Results, pool, ctxDone, exchanges, delivered>>

\* ui.Submit:99-100: StartQueue, then the hostnames are drawn.
UiStartQueue ==
    /\ pc = "ui_start"
    /\ ranging' = [ranging EXCEPT ![1] = workers]
    /\ \E hostnames \in Random(COUNT, Uniq(ExternalHostnames(chrome.urls))) :
          /\ selectedDomains' = hostnames
          /\ pc' = IF hostnames = <<>> THEN "ui_close" ELSE "ui_add"
    /\ domIdx' = 1
    /\ UNCHANGED <<currentNameservers, record_type, dnssec, size, workers, flags, setup,
                   reuse, nsIdx, answered, currentNsResults, allResults, summaryData,
                   Requests, closed, Results, exchanging, publishing, exited, ctxDone,
                   exchanges, delivered>>

\* ui.Submit:103-108: q.Add for the next hostname, possible when the buffer has
\* room.
UiAdd ==
    /\ pc = "ui_add"
    /\ Len(Requests[1]) < size
    /\ Requests' = [Requests EXCEPT ![1] =
          Append(@, Add("8.8.8.8:53", "A", <<selectedDomains[domIdx], ".">>, FALSE))]
    /\ domIdx' = domIdx + 1
    /\ pc' = IF domIdx = N THEN "ui_close" ELSE "ui_add"
    /\ UNCHANGED <<config, nsIdx, answered, currentNsResults, allResults, summaryData,
                   closed, Results, pool, ctxDone, exchanges, delivered>>

\* ui.Submit:109-111: q.SendCompletionSignal(), then answered := 0.
UiSendCompletionSignal ==
    /\ pc = "ui_close"
    /\ closed' = [closed EXCEPT ![1] = TRUE]
    /\ answered' = 0
    /\ pc' = "ui_collect"
    /\ UNCHANGED <<config, nsIdx, domIdx, currentNsResults, allResults, summaryData,
                   Requests, Results, pool, ctxDone, exchanges, delivered>>

\* ui.Submit:112-124: one Result is read from q.Results and logged.
UiCollect ==
    /\ pc = "ui_collect"
    /\ answered # N
    /\ Results[1] # <<>>
    /\ Results' = [Results EXCEPT ![1] = Tail(@)]
    /\ answered' = answered + 1
    /\ UNCHANGED <<config, pc, nsIdx, domIdx, currentNsResults, allResults, summaryData,
                   Requests, closed, pool, ctxDone, exchanges, delivered>>

\* ui.Submit:113-114, 126-129: every hostname is answered and the handler
\* returns.
UiFinish ==
    /\ pc = "ui_collect"
    /\ answered = N
    /\ pc' = "ui_done"
    /\ UNCHANGED <<config, nsIdx, domIdx, answered, currentNsResults, allResults,
                   summaryData, Requests, closed, Results, pool, ctxDone, exchanges,
                   delivered>>

\* A request to /submit has arrived: the handler has one queue, for 8.8.8.8:53,
\* asks for A records without DNSSEC, and reads none of the flags.
UiInit ==
    /\ chrome \in UiHistories
    /\ currentNameservers = <<"8.8.8.8:53">>
    /\ selectedDomains = <<>>
    /\ record_type = "A"
    /\ dnssec = FALSE
    /\ size \in 1..MaxSize
    /\ workers \in 1..MaxWorkers
    /\ pc = "ui_history"
    /\ nameservers = <<>>
    /\ domain_source = "history"
    /\ count = 0
    /\ file = NoFile
    /\ domainsToTest = <<>>
    /\ accessed = {}
    /\ reuse = FALSE
    /\ nsIdx = 1
    /\ domIdx = 1
    /\ answered = 0
    /\ currentNsResults = <<>>
    /\ allResults = <<>>
    /\ summaryData = <<>>
    /\ Requests = <<<<>>>>
    /\ closed = <<FALSE>>
    /\ Results = <<<<>>>>
    /\ ranging = <<0>>
    /\ exchanging = <<EmptyBag>>
    /\ publishing = <<EmptyBag>>
    /\ exited = <<0>>
    /\ ctxDone = FALSE
    /\ exchanges = 0
    /\ delivered = <<<<>>>>

\* The two orchestrators: a run of the CLI against several nameservers, or one
\* request to the UI.
OrchestratorsInit ==
    \/ Init /\ Len(currentNameservers) > 1
    \/ UiInit

OrchestratorsNext ==
    \/ StartQueue
    \/ Submit
    \/ SendCompletionSignal
    \/ Collect
    \/ FinishBatch
    \/ Summarize
    \/ UiHistory
    \/ UiStartQueue
    \/ UiAdd
    \/ UiSendCompletionSignal
    \/ UiCollect
    \/ UiFinish
    \/ \E q \in Queues : WorkerReceive(q)
    \/ \E q \in Queues : ExchangeReturn(q)
    \/ \E q \in Queues : WorkerPublish(q)
    \/ \E q \in Queues : WorkerExit(q)

OrchestratorsSpec == OrchestratorsInit /\ [][OrchestratorsNext]_vars

\* --------------------------------------------------- history of a queue
\* How many Requests the orchestrator has sent on queue q's Requests channel.
SubmittedCount(q) ==
    IF q < nsIdx THEN N
    ELSE IF q > nsIdx \/ pc = "start" THEN 0
    ELSE IF pc = "submit" THEN domIdx - 1
    ELSE N

\* The Requests sent on queue q's Requests channel, in order.
SubmittedTo(q) ==
    [i \in 1..SubmittedCount(q) |-> RequestFor(currentNameservers[q], i)]

\* The Results of queue q the orchestrator has read.
ReadFrom(q) ==
    IF q < nsIdx \/ pc \in {"summary", "done"} THEN N
    ELSE IF q = nsIdx /\ pc = "collect" THEN answered
    ELSE 0

RequestsOf(results) == [i \in DOMAIN results |-> results[i].Request]

Copies(seq, x) == Cardinality({i \in DOMAIN seq : seq[i] = x})

\* A sequence as a multiset.
SeqToBag(seq) ==
    [x \in {seq[i] : i \in DOMAIN seq} |-> Copies(seq, x)]

\* The Request of a Result.
RequestIn(result) == result.Request

SameMultiset(s, t) ==
    /\ Len(s) = Len(t)
    /\ \A i \in DOMAIN s : Copies(s, s[i]) = Copies(t, s[i])

Failures(results) == Cardinality({i \in DOMAIN results : results[i].Error # ""})

\* Every Result a queue's workers hold or have published.
ResultsOfQueue(q) ==
    BagToSet(publishing[q]) \cup {delivered[q][i] : i \in DOMAIN delivered[q]}

\* Every Request still inside queue q: pending, on the wire, or in a Result that
\* is held by a worker or waits in the Results channel.
InsideQueue(q) ==
    {Requests[q][i] : i \in DOMAIN Requests[q]}
    \cup BagToSet(exchanging[q])
    \cup {r.Request : r \in BagToSet(publishing[q])}
    \cup {Results[q][i].Request : i \in DOMAIN Results[q]}

\* ------------------------------------------------------------------- claims

\* C1: every Result published on a queue's Results stream carries a Request that
\* was submitted to that queue, no submitted Request gives more Results than
\* the times it was submitted, and once all workers of the queue have exited
\* the Results published are, as a multiset, the Requests submitted.
C1_ResultsMatchJobs ==
    \A q \in Queues :
       /\ \A i \in DOMAIN delivered[q] :
             Copies(RequestsOf(delivered[q]), delivered[q][i].Request)
                <= Copies(SubmittedTo(q), delivered[q][i].Request)
       /\ (exited[q] = workers) =>
             /\ SubmittedCount(q) = N
             /\ SameMultiset(RequestsOf(delivered[q]), SubmittedTo(q))

\* C1 witness: two workers have served a batch of three and have both exited.
C1_Witness ==
    /\ workers = 2
    /\ N = 3
    /\ exited[1] = workers
    /\ Len(delivered[1]) = 3

\* C3: the orchestrator is never blocked submitting while the Results stream
\* is full and every worker is blocked publishing.
C3_NoSubmitDeadlock ==
    ~ /\ pc = "submit"
      /\ Len(Requests[nsIdx]) = size
      /\ Len(Results[nsIdx]) = size
      /\ BagCardinality(publishing[nsIdx]) = workers

\* C4: everything inside any queue targets the nameserver under test: the
\* queues of the nameservers already tested are drained and those of the
\* nameservers to come have received nothing.
C4_OneNameserverAtATime ==
    \A q \in Queues :
       /\ q # nsIdx => InsideQueue(q) = {}
       /\ q < nsIdx => Len(delivered[q]) = N
       /\ q > nsIdx => delivered[q] = <<>>
       /\ \A r \in InsideQueue(q) : r.Destination = currentNameservers[nsIdx]

\* C4 witness: the second nameserver's batch is in flight.
C4_Witness ==
    /\ nsIdx = 2
    /\ currentNameservers[1] # currentNameservers[2]
    /\ Results[2] # <<>>
    /\ Requests[2] # <<>>

\* C5: every stored collection has len(selectedDomains) entries, all for its
\* nameserver, failures included; in the summary the successful count is the
\* number of entries without a failure text, and with the failed ones it adds
\* up to the total, len(selectedDomains).
C5_BatchesComplete ==
    /\ \A ns \in DOMAIN allResults :
          /\ Len(allResults[ns]) = N
          /\ \A i \in DOMAIN allResults[ns] : allResults[ns][i].Request.Destination = ns
    /\ pc = "done" =>
          /\ Len(summaryData) = Cardinality(DOMAIN allResults)
          /\ \A i \in DOMAIN summaryData :
                LET e == summaryData[i]
                    stored == allResults[e.Nameserver]
                IN /\ e.TotalQueries = N
                   /\ e.SuccessfulQueries =
                         Cardinality({j \in DOMAIN stored : stored[j].Error = ""})
                   /\ e.SuccessfulQueries + Failures(stored) = e.TotalQueries

\* C5 witness: a summarized nameserver with failed and successful queries.
C5_Witness ==
    /\ pc = "done"
    /\ \E i \in DOMAIN summaryData :
          /\ summaryData[i].SuccessfulQueries > 0
          /\ summaryData[i].SuccessfulQueries < summaryData[i].TotalQueries - 1

\* C7: a Result with a failure text has no Answers, and a Result without one
\* has a non-negative Duration.
C7_ResultShape ==
    \A q \in Queues : \A r \in ResultsOfQueue(q) :
       /\ r.Error # "" => r.Answers = <<>>
       /\ r.Error = "" => r.Duration >= 0

\* C7 witness: a failed exchange and an answered one have both been published.
C7_Witness ==
    \E i, j \in DOMAIN delivered[1] :
       /\ delivered[1][i].Error = ErrTransport
       /\ delivered[1][j].Error = ""
       /\ delivered[1][j].Answers # <<>>

\* C8: with an unknown record type no exchange is made, every Result has a
\* failure text, zero Duration and no Answers, and no Request is lost: each
\* one submitted is pending, held by a worker for publishing, or published.
C8_UnknownTypeFailsPreflight ==
    record_type \notin StringToType =>
       /\ exchanges = 0
       /\ \A q \in Queues :
             /\ exchanging[q] = EmptyBag
             /\ \A r \in ResultsOfQueue(q) :
                   r.Error # "" /\ r.Duration = 0 /\ r.Answers = <<>>
             /\ SubmittedCount(q) =
                   Len(Requests[q]) + BagCardinality(publishing[q]) + Len(delivered[q])

\* C8 witness: a whole batch of unknown-type Requests has been published.
C8_Witness ==
    /\ record_type \notin StringToType
    /\ N = 3
    /\ Len(delivered[1]) = 3

\* C2: once a batch has been submitted and its Results stream is being read,
\* the orchestrator comes to hold exactly one Result for each of the N
\* Requests, however many of them failed; it never counts more than N.
C2_EveryJobYieldsResult ==
    /\ [](answered <= N /\ Len(currentNsResults) <= N)
    /\ (pc = "collect")
          ~> /\ pc = "collect"
             /\ answered = N
             /\ SameMultiset(RequestsOf(currentNsResults), SubmittedTo(nsIdx))

\* C2 witness: a batch of four has been received, two of its queries failed.
C2_Witness ==
    /\ pc = "collect"
    /\ N = 4
    /\ answered = N
    /\ Failures(currentNsResults) = 2

\* C6: every run reaches the end of the summary stage.
C6_RunReachesSummary == <>(pc = "done")

\* The Results a queue's workers come to hold in a step.
NewlyHeld(q) == publishing'[q] (-) publishing[q]

\* The step that cancels the scope leaves every Job that was in flight with
\* its worker as a Result with a failure text and no Answers, and touches
\* nothing else of the queue.
AbortsInFlight(q) ==
    /\ exchanging'[q] = EmptyBag
    /\ publishing[q] \sqsubseteq publishing'[q]
    /\ BagOfAll(RequestIn, NewlyHeld(q)) = exchanging[q]
    /\ \A r \in BagToSet(NewlyHeld(q)) : r.Error # "" /\ r.Answers = <<>>
    /\ UNCHANGED <<Requests[q], Results[q], delivered[q]>>

\* Every Job sent to queue q is pending, held by a worker as a Result, waiting
\* in the Results channel or read by the orchestrator; none is on the wire.
NoneDroppedAfterCancel(q) ==
    /\ exchanging[q] = EmptyBag
    /\ SeqToBag(SubmittedTo(q)) =
          SeqToBag(Requests[q]) (+) BagOfAll(RequestIn, publishing[q])
             (+) SeqToBag(RequestsOf(delivered[q]))
    /\ Len(delivered[q]) = Len(Results[q]) + ReadFrom(q)

\* The queue takes the whole batch before the orchestrator reads (C3).
BatchFits == N <= size + size + workers

C10_WorkersDrainThenExit ==
    /\ [](\A q \in 1..MaxNameservers :
             (q \in Queues /\ exited[q] > 0) => closed[q] /\ Requests[q] = <<>>)
    /\ \A q \in 1..MaxNameservers :
          (q \in Queues /\ closed[q]) ~> (q \in Queues /\ exited[q] = workers)

\* C10 witness: both workers of a queue that served four Requests have exited.
C10_Witness ==
    /\ workers = 2
    /\ N = 4
    /\ closed[1]
    /\ Len(delivered[1]) = N
    /\ exited[1] = workers

\* C11: a send on a queue's Requests channel waits only when the buffer already
\* holds size Requests: while the orchestrator submits and the buffer holds
\* fewer, the send is enabled; no buffer ever holds more than size Requests.
C11_SubmitBlocksOnlyWhenFull ==
    /\ \A q \in Queues : Len(Requests[q]) <= size
    /\ (pc = "submit" /\ Len(Requests[nsIdx]) < size) => ENABLED Submit
    /\ (pc = "submit" /\ ~ENABLED Submit) => Len(Requests[nsIdx]) = size

\* C11 witness: the orchestrator waits at a send on a full buffer.
C11_Witness ==
    /\ pc = "submit"
    /\ domIdx > 1
    /\ Len(Requests[nsIdx]) = size
    /\ ~ENABLED Submit

\* How many workers of queue q hold a Request or its Result.
Executing(q) == BagCardinality(exchanging[q]) + BagCardinality(publishing[q])

\* Whether StartQueue has run for queue q.
Started(q) == q < nsIdx \/ (q = nsIdx /\ pc # "start")

\* C12: every worker holds at most one Request at a time and is back in the
\* range loop only after it has published the Result, so the Requests being
\* executed on a queue are never more than its workers.
C12_OneJobPerWorker ==
    \A q \in Queues :
       /\ Executing(q) <= workers
       /\ Started(q) => ranging[q] + Executing(q) + exited[q] = workers
       /\ ~Started(q) => ranging[q] + Executing(q) + exited[q] = 0

\* C12 witness: all of several workers hold a Request while more are pending.
C12_Witness ==
    \E q \in Queues :
       /\ workers > 1
       /\ Executing(q) = workers
       /\ BagCardinality(exchanging[q]) > 0
       /\ BagCardinality(publishing[q]) > 0
       /\ Requests[q] # <<>>

\* ------------------------------------------------- claims about the summary
\* The nameservers of the run, and whether the ranking has been made.
Tested == DOMAIN allResults
Ranked == pc = "done"

\* Where nameserver ns stands in the ranking, and in the -nameservers list.
Position(ns) == CHOOSE i \in DOMAIN summaryData : summaryData[i].Nameserver = ns
InputIndex(ns) ==
    CHOOSE q \in Queues :
       /\ currentNameservers[q] = ns
       /\ \A p \in Queues : currentNameservers[p] = ns => q <= p

\* The successful Results of ns, their number and their elapsed time together
\* (nanoseconds).
Successes(ns) == {i \in DOMAIN allResults[ns] : allResults[ns][i].Error = ""}
SuccessCount(ns) == Cardinality(Successes(ns))
RECURSIVE ElapsedOver(_, _)
ElapsedOver(results, idx) ==
    IF idx = {} THEN 0
    ELSE LET i == CHOOSE x \in idx : TRUE
         IN results[i].Duration + ElapsedOver(results, idx \ {i})
Elapsed(ns) == ElapsedOver(allResults[ns], Successes(ns))

\* Mean latency over successes, compared as exact quotients Elapsed/SuccessCount.
MeanLower(a, b) == Elapsed(a) * SuccessCount(b) < Elapsed(b) * SuccessCount(a)
MeanEqual(a, b) == Elapsed(a) * SuccessCount(b) = Elapsed(b) * SuccessCount(a)

\* C13: in the ranking every nameserver is listed once, and a nameserver with no
\* successful Result stands after every nameserver that has one, whatever the
\* latencies and success counts of the others.
C13_FailedRankLast ==
    Ranked =>
       /\ Len(summaryData) = Cardinality(Tested)
       /\ {summaryData[i].Nameserver : i \in DOMAIN summaryData} = Tested
       /\ \A a \in Tested : \A b \in Tested :
             (SuccessCount(a) = 0 /\ SuccessCount(b) >= 1) => Position(b) < Position(a)

\* C13 witness: of three ranked nameservers the first in string order has no
\* success and is ranked last, behind one whose average is zero milliseconds
\* and one whose average is positive.
C13_Witness ==
    /\ Ranked
    /\ Len(summaryData) = 3
    /\ summaryData[3].Nameserver = NameserverNames[1]
    /\ SuccessCount(NameserverNames[1]) = 0
    /\ \E i \in 1..2 : \E j \in 1..2 :
          /\ FloatIsZero(summaryData[i].AverageMs)
          /\ FloatIsPositive(summaryData[j].AverageMs)

\* C14: of two nameservers that each have a successful Result, the one with
\* the strictly lower mean latency over its successes is ranked before the other.
C14_AscendingMean ==
    Ranked =>
       \A a \in Tested : \A b \in Tested :
          (SuccessCount(a) >= 1 /\ SuccessCount(b) >= 1 /\ MeanLower(a, b))
             => Position(a) < Position(b)

\* C15: two nameservers with equal mean latency and equal successful-count are
\* ranked in the order of the -nameservers list.
C15_TiesKeepInputOrder ==
    Ranked =>
       \A a \in Tested : \A b \in Tested :
          (/\ SuccessCount(a) >= 1
           /\ SuccessCount(a) = SuccessCount(b)
           /\ MeanEqual(a, b)
           /\ InputIndex(a) < InputIndex(b))
             => Position(a) < Position(b)

\* C16: the mean latency kept for a nameserver with no successful Result is
\* never the number 0, the value of a nameserver whose mean is 0 ms.
C16_NoSuccessIsNotZero ==
    \A i \in DOMAIN summaryData :
       summaryData[i].SuccessfulQueries = 0 => ~FloatIsZero(summaryData[i].AverageMs)

\* C17: for a nameserver with k >= 1 successful Results the mean used for the
\* ranking, in milliseconds, is the elapsed time of its successful Results
\* together divided by k, nothing below the millisecond lost.
C17_ExactMean ==
    \A i \in DOMAIN summaryData :
       LET e == summaryData[i] IN
       SuccessCount(e.Nameserver) >= 1 =>
          e.AverageMs.num * NanosPerMs * SuccessCount(e.Nameserver)
             = Elapsed(e.Nameserver) * e.AverageMs.den

\* C18: of two nameservers with equal mean latency and different
\* successful-counts the one with more successes is ranked first.
C18_TieBrokenBySuccesses ==
    Ranked =>
       \A a \in Tested : \A b \in Tested :
          (/\ SuccessCount(b) >= 1
           /\ SuccessCount(a) > SuccessCount(b)
           /\ MeanEqual(a, b))
             => Position(a) < Position(b)

\* The nameservers with a success whose mean latency is the lowest of all.
BestMean ==
    {a \in Tested :
        /\ SuccessCount(a) >= 1
        /\ \A b \in Tested : SuccessCount(b) >= 1 => ~MeanLower(b, a)}

\* C19: the nameservers reported as fastest are exactly those with a success
\* whose mean latency is the minimum over all nameservers with a success.
C19_FastestIsBestMean == Ranked => Fastest(summaryData) = BestMean

\* The orders in which the Results of a batch can have arrived.
Arrivals(results) ==
    {[i \in DOMAIN results |-> results[p[i]]] :
        p \in {f \in [DOMAIN results -> DOMAIN results] :
                  \A i \in DOMAIN results : \A j \in DOMAIN results :
                     f[i] = f[j] => i = j}}

\* The same Result sets per nameserver, in every order of arrival.
Rearrangements(all) ==
    {f \in [DOMAIN all -> UNION {Arrivals(all[ns]) : ns \in DOMAIN all}] :
        \A ns \in DOMAIN all : f[ns] \in Arrivals(all[ns])}

RankingOf(data) == [i \in DOMAIN data |-> data[i].Nameserver]

\* C20: the ranked order of the nameservers is the same for every order in
\* which the Results of each nameserver arrived.
C20_RankingIgnoresArrivalOrder ==
    Ranked =>
       \A f \in Rearrangements(allResults) :
          RankingOf(SortSlice(SummaryOf(f))) = RankingOf(summaryData)

\* C20 witness: several nameservers are ranked, and the batch of one holds a
\* success and a failure, the batch of another two successes of different
\* elapsed times.
C20_Witness ==
    /\ Ranked
    /\ Len(summaryData) >= 2
    /\ \E a \in Tested : \E b \in Tested :
          /\ a # b
          /\ Len(allResults[a]) = 2
          /\ SuccessCount(a) = 1
          /\ SuccessCount(b) = 2
          /\ allResults[b][1].Duration # allResults[b][2].Duration

\* ------------------------------------------- claims about the run's set-up
\* The steps of runCliBenchmark before the benchmarking loop.
SetupPhases == {"nameservers", "domains", "select"}

\* C21: the query names of the Requests submitted to one queue are pairwise
\* distinct, whatever the domain source and the count.
C21_DispatchedNamesDistinct ==
    \A q \in Queues :
       \A i \in 1..SubmittedCount(q) : \A j \in 1..SubmittedCount(q) :
          i # j => SubmittedTo(q)[i].RecordName # SubmittedTo(q)[j].RecordName

\* The lesser of two numbers.
Min(a, b) == IF a < b THEN a ELSE b

\* C22: for a count above zero the domains selected are min(count, size of the
\* pool) many, never more than count, each one a member of the pool, and no
\* queue is sent more than count Requests.
C22_SelectionCapped ==
    (count > 0 /\ pc \notin SetupPhases) =>
       /\ Len(selectedDomains) = Min(count, Len(domainsToTest))
       /\ Len(selectedDomains) <= count
       /\ \A i \in DOMAIN selectedDomains :
             \E j \in DOMAIN domainsToTest : selectedDomains[i] = domainsToTest[j]
       /\ \A q \in Queues : SubmittedCount(q) <= count

\* C22 witness: the count is above the size of the pool and the batch of the
\* pool's size has been submitted.
C22_Witness ==
    /\ count > Len(domainsToTest)
    /\ Len(domainsToTest) > 0
    /\ pc = "collect"
    /\ SubmittedCount(1) = Len(domainsToTest)

\* The history or the file gives no domain: reading it fails, or nothing it
\* holds can be used.
SourceGivesNothing ==
    \/ /\ domain_source = "history"
       /\ \/ chrome.err
          \/ \A i \in DOMAIN chrome.urls :
                \/ chrome.urls[i].hostErr
                \/ chrome.urls[i].suffixErr
                \/ chrome.urls[i].suffix = chrome.urls[i].host
    \/ /\ domain_source \notin {"history", "default_list"}
       /\ \/ ~file.openable
          \/ \A i \in DOMAIN file.content : file.content[i] \in Space

\* C23: when the history or the file gives no domain the candidate pool is the
\* built-in list of ten domains and the run goes on: it ends fatally only when
\* the count selects nothing.
C23_FallbackToDefaultList ==
    (SourceGivesNothing /\ pc \notin {"nameservers", "domains"}) =>
       /\ domainsToTest = defaultDomains
       /\ Len(domainsToTest) = 10
       /\ pc = "fatal" => count <= 0

\* C23 witness: the history was read, held no external host, and the run has
\* ranked the nameservers on domains of the default list.
C23_Witness ==
    /\ domain_source = "history"
    /\ ~chrome.err
    /\ SourceGivesNothing
    /\ pc = "done"

\* C24: with -domain_source default_list neither the browser history nor a
\* file is read, and every domain dispatched is one of the built-in list.
C24_DefaultListReadsNothing ==
    domain_source = "default_list" =>
       /\ accessed = {}
       /\ \A q \in Queues : \A i \in 1..SubmittedCount(q) :
             \E j \in DOMAIN defaultDomains :
                SubmittedTo(q)[i].RecordName = Fqdn(defaultDomains[j])

\* C24 witness: a run on the default list has ended.
C24_Witness ==
    /\ domain_source = "default_list"
    /\ pc = "done"
    /\ \A q \in Queues : SubmittedCount(q) > 0

\* C25: a run that ends fatally has opened no queue, submitted no Request and
\* made no summary, and takes no further step; a run with no domain selected
\* ends fatally, and a run that goes on has a nameserver and a domain.
C25_FatalBeforeAnyDispatch ==
    /\ pc = "fatal" =>
          /\ ~ENABLED SetupNext
          /\ \A q \in Queues :
                /\ ranging[q] = 0 /\ exited[q] = 0
                /\ Requests[q] = <<>> /\ Results[q] = <<>> /\ delivered[q] = <<>>
                /\ exchanging[q] = EmptyBag /\ publishing[q] = EmptyBag
          /\ exchanges = 0
          /\ allResults = <<>>
          /\ summaryData = <<>>
    /\ (pc \notin SetupPhases /\ (count <= 0 \/ Len(domainsToTest) = 0)) => pc = "fatal"
    /\ pc \notin (SetupPhases \cup {"fatal"}) =>
          Len(currentNameservers) > 0 /\ Len(selectedDomains) > 0

\* C25 witness: the run has ended fatally with a pool of domains and a count
\* of zero.
C25_Witness ==
    /\ pc = "fatal"
    /\ count = 0
    /\ Len(domainsToTest) > 0
    /\ Len(currentNameservers) > 0

\* -------------------------------------------- claims about the parsing
\* The pieces of a text between its separators sep, as pairs of the cuts
\* around them: the separators' positions, the position before the text and
\* the one behind it.
Cuts(text, sep) ==
    {0, Len(text) + 1} \cup {i \in DOMAIN text : text[i] = sep}
Pieces(text, sep) ==
    {p \in Cuts(text, sep) \X Cuts(text, sep) :
        /\ p[1] < p[2]
        /\ \A c \in Cuts(text, sep) : ~(p[1] < c /\ c < p[2])}
PieceText(text, p) == SubSeq(text, p[1] + 1, p[2] - 1)

\* A text of blanks only; a text without the blanks around it.
Blank(text) == \A i \in DOMAIN text : text[i] \in Space
Core(text) ==
    LET inked == {i \in DOMAIN text : text[i] \notin Space}
        lo == CHOOSE i \in inked : \A j \in inked : i <= j
        hi == CHOOSE i \in inked : \A j \in inked : j <= i
    IN SubSeq(text, lo, hi)

\* The pieces that are not blank, and the k-th of them in the text's order.
Kept(text, sep) == {p \in Pieces(text, sep) : ~Blank(PieceText(text, p))}
KthKept(text, sep, k) ==
    CHOOSE p \in Kept(text, sep) :
       Cardinality({r \in Kept(text, sep) : r[1] < p[1]}) = k - 1

\* The address the claim gives for an element of the flag.
WithPort(element) ==
    IF \E i \in DOMAIN element : element[i] = ":" THEN Str(Core(element))
    ELSE Str(Core(element)) \o ":53"

\* C26: for a flag with a non-blank element the nameservers are the non-blank
\* elements between the commas, in order, trimmed, with ":53" appended to
\* those without a ":" and the others unchanged; each holds a ":".
C26_ParsedElements ==
    (pc # "nameservers" /\ Kept(nameservers, ",") # {}) =>
       /\ Len(currentNameservers) = Cardinality(Kept(nameservers, ","))
       /\ \A k \in DOMAIN currentNameservers :
             currentNameservers[k] =
                WithPort(PieceText(nameservers, KthKept(nameservers, ",", k)))
       /\ LET parsed == ParsedParts(Split(nameservers, ",")) IN
          \A k \in DOMAIN parsed : \E i \in DOMAIN parsed[k] : parsed[k][i] = ":"

\* C26 witness: a flag of two elements, the first with blanks around it and no
\* port, the second with a port, has been parsed.
C26_Witness ==
    /\ pc = "domains"
    /\ nameservers = <<" ", "9.9.9.9", ",", "9.9.9.9", ":", "5353">>
    /\ currentNameservers = <<"9.9.9.9:53", "9.9.9.9:5353">>

\* C27: for a flag that is empty or holds commas and blanks only the
\* nameservers are the default list, which is not empty.
C27_DefaultsForBlankFlag ==
    (pc # "nameservers" /\ Kept(nameservers, ",") = {}) =>
       /\ currentNameservers = defaultNameservers
       /\ Len(currentNameservers) > 0
       /\ pc # "fatal"

\* C27 witness: a flag of commas and a blank has been parsed.
C27_Witness ==
    /\ pc = "domains"
    /\ nameservers = <<",", " ", ",">>
    /\ currentNameservers = defaultNameservers

\* The domains the claim gives for the lines lines of a file: the non-blank
\* ones, trimmed, in the file's order.
DomainsOfLines(content, lines) ==
    LET kept == {p \in lines : ~Blank(PieceText(content, p))}
        kth(k) == CHOOSE p \in kept : Cardinality({r \in kept : r[1] < p[1]}) = k - 1
    IN [k \in 1..Cardinality(kept) |-> Str(Core(PieceText(content, kth(k))))]

\* The lines of a file the Scanner's buffer cannot hold.
TooLong(content) ==
    {p \in Pieces(content, "\n") : Width(PieceText(content, p)) >= MaxScanTokenSize}

\* The lines of a file before the first one that is too long.
LinesRead(content) ==
    {p \in Pieces(content, "\n") : \A l \in TooLong(content) : p[1] < l[1]}

\* C28 as stated: every file that can be opened gives, without error, its
\* non-blank lines trimmed and in order; a file that cannot be opened gives an
\* error and no domains.
C28_LoadsEveryReadableFile ==
    pc \notin {"nameservers", "domains"} =>
       IF file.openable
       THEN loadDomainsFromFile(file) =
               [domains |-> DomainsOfLines(file.content, Pieces(file.content, "\n")),
                err |-> FALSE]
       ELSE loadDomainsFromFile(file) = [domains |-> <<>>, err |-> TRUE]

\* C28 amended: a file that can be opened and whose lines are all shorter than
\* 65536 bytes gives, without error, its non-blank lines trimmed and in order;
\* with a longer line it gives an error and the domains of the lines before
\* that line; a file that cannot be opened gives an error and no domains.  The
\* candidate pool is what was loaded, or the default list after an error or
\* for no domain.
C28_LoadsFileOfShortLines ==
    pc \notin {"nameservers", "domains"} =>
       LET loaded == loadDomainsFromFile(file) IN
       /\ IF file.openable
          THEN loaded = [domains |-> DomainsOfLines(file.content, LinesRead(file.content)),
                         err |-> TooLong(file.content) # {}]
          ELSE loaded = [domains |-> <<>>, err |-> TRUE]
       /\ domainsToTest = IF loaded.err \/ loaded.domains = <<>> THEN defaultDomains
                          ELSE loaded.domains

\* C28 witness: a file with a blank line, a carriage return and a last line
\* without a line end has been loaded.
C28_Witness ==
    /\ pc = "select"
    /\ file.openable
    /\ file.content = <<"a.com", "\r", "\n", "\n", "a.com">>
    /\ domainsToTest = <<"a.com", "a.com">>

\* ---------------------------------------- claims about the reused queue
\* The Requests of the batch of nameserver ns.
BatchRequests(ns) == [i \in 1..N |-> RequestFor(ns, i)]

\* The Results a Request can come to, whatever queue serves it.
ResultsFor(request) ==
    IF ~KnownType(request) THEN {PreflightFailure(request)}
    ELSE {SendQueryResult(request, o.in, o.rtt, o.err) :
             o \in ExchangeOutcomes(request)}

\* C29: with a queue per nameserver and with one queue reused for all of them
\* alike, the collection stored for a nameserver answers, as a multiset, the
\* Requests of that nameserver's batch, each by a Result that Request can come
\* to, and no Result collected for the nameserver under test targets another
\* nameserver.
C29_ReuseGivesSameBatches ==
    /\ \A ns \in DOMAIN allResults :
          /\ SameMultiset(RequestsOf(allResults[ns]), BatchRequests(ns))
          /\ \A i \in DOMAIN allResults[ns] :
                allResults[ns][i] \in ResultsFor(allResults[ns][i].Request)
    /\ pc = "collect" =>
          \A i \in DOMAIN currentNsResults :
             currentNsResults[i].Request.Destination = currentNameservers[nsIdx]
    /\ pc \in {"summary", "done"} =>
          DOMAIN allResults = {currentNameservers[q] : q \in Queues}

\* C29 witness: two workers of one reused queue have served the batches of two
\* nameservers, two Jobs each, and both batches are stored.
C29_Witness ==
    /\ reuse
    /\ pc = "done"
    /\ workers = 2
    /\ N = 2
    /\ currentNameservers[1] # currentNameservers[2]
    /\ Len(delivered[1]) = 4
    /\ delivered[2] = <<>>
    /\ Cardinality(DOMAIN allResults) = 2

\* ------------------------------------------- claims about the exchanges
RECURSIVE SumOver(_, _)
SumOver(f, n) == IF n = 0 THEN 0 ELSE f[n] + SumOver(f, n - 1)

\* The Jobs submitted to any queue, and those of them a worker has received.
SubmittedJobs ==
    SumOver([q \in Queues |-> SubmittedCount(q)], Len(currentNameservers))
ReceivedJobs ==
    SumOver([q \in Queues |-> SubmittedCount(q) - Len(Requests[q])], Len(currentNameservers))

\* C30: at every moment the exchanges made are as many as the Jobs received
\* with a known record type (none for an unknown type), never more than the
\* Jobs submitted, failed and cancelled exchanges included; when the run is
\* over they are as many as the Jobs submitted with a known record type.
C30_OneExchangePerJob ==
    /\ exchanges = IF record_type \in StringToType THEN ReceivedJobs ELSE 0
    /\ exchanges <= SubmittedJobs
    /\ pc \in {"summary", "done"} =>
          exchanges = IF record_type \in StringToType
                      THEN Len(currentNameservers) * N ELSE 0

\* C30 witness: a run of several Jobs is over, an exchange of it has failed,
\* and the exchanges made are as many as the Jobs.
C30_Witness ==
    /\ pc = "done"
    /\ record_type \in StringToType
    /\ Len(currentNameservers) * N > 1
    /\ exchanges = Len(currentNameservers) * N
    /\ \E q \in Queues : \E i \in DOMAIN delivered[q] :
          delivered[q][i].Error = ErrTransport

\* ------------------------------------------------ claims about the Jobs
\* The Job the claim gives for the i-th selected domain and the q-th
\* nameserver.
ExpectedJob(q, i) ==
    [Destination |-> currentNameservers[q], RecordType |-> record_type,
     RecordName |-> <<selectedDomains[i], ".">>, VerifySignature |-> dnssec]

\* Every Job that has entered queue q, wherever it is now: pending, on the
\* wire, in a Result a worker holds, or in a Result sent on Results.
JobsEntered(q) ==
    SeqToBag(Requests[q]) (+) exchanging[q]
       (+) BagOfAll(RequestIn, publishing[q]) (+) SeqToBag(RequestsOf(delivered[q]))

\* C31: the Jobs that have entered the queue of a nameserver, those found in
\* Results included, are one per entry of selectedDomains passed by the
\* submit loop, each with that nameserver as Destination, the -record_type
\* and -dnssec flags and the domain followed by "." as RecordName; when the
\* batch is submitted they are one per entry of selectedDomains.
C31_OneJobPerDomain ==
    \A q \in Queues :
       /\ JobsEntered(q) =
             SeqToBag([i \in 1..SubmittedCount(q) |-> ExpectedJob(q, i)])
       /\ (q < nsIdx \/ (q = nsIdx /\ pc \notin {"start", "submit"})) =>
             BagCardinality(JobsEntered(q)) = Len(selectedDomains)

\* C31 witness: the batch of the second nameserver is submitted, a domain is
\* in it twice, and a Result of it has been read.
C31_Witness ==
    /\ pc = "collect"
    /\ nsIdx = 2
    /\ currentNameservers[1] # currentNameservers[2]
    /\ selectedDomains = <<DomainNames[1], DomainNames[1]>>
    /\ answered > 0
    /\ currentNsResults[1].Request = ExpectedJob(2, 1)

\* ------------------------------------------- claims about the collections
\* C32: a step that moves a worker leaves allResults, currentNsResults and
\* answered as they are; currentNsResults grows only by the one Result at the
\* head of the Results channel of the nameserver under test, which leaves the
\* channel while answered goes up by one and no worker moves; allResults
\* changes only by storing the complete collection.
C32_OnlyCollectWritesCollections ==
    [][/\ pool' # pool => UNCHANGED <<allResults, currentNsResults, answered>>
       /\ (currentNsResults' # currentNsResults /\ currentNsResults' # <<>>) =>
             /\ pc = "collect"
             /\ Results[nsIdx] # <<>>
             /\ currentNsResults' = Append(currentNsResults, Head(Results[nsIdx]))
             /\ Results' = [Results EXCEPT ![nsIdx] = Tail(@)]
             /\ answered' = answered + 1
             /\ pool' = pool
       /\ answered' # answered =>
             \/ answered' = 0 /\ currentNsResults' = <<>>
             \/ Len(currentNsResults') = Len(currentNsResults) + 1
       /\ allResults' # allResults =>
             /\ answered = N
             /\ allResults' =
                   MapPut(allResults, currentNameservers[nsIdx], currentNsResults)
      ]_vars

\* C32 witness: the orchestrator has read a Result of the batch while a worker
\* holds another one and a third waits in the Results channel.
C32_Witness ==
    /\ pc = "collect"
    /\ Len(currentNsResults) = 1
    /\ answered = 1
    /\ Results[nsIdx] # <<>>
    /\ publishing[nsIdx] # EmptyBag

\* C33: in every queue the Jobs submitted are those pending, those held by
\* workers, the Results waiting in the Results channel and the Results read
\* by the orchestrator; the Results channel never holds more than size
\* Results, so a Result that cannot be sent stays with its worker.
C33_JobsConserved ==
    \A q \in Queues :
       /\ SubmittedCount(q) =
             Len(Requests[q]) + BagCardinality(exchanging[q])
                + BagCardinality(publishing[q]) + Len(Results[q]) + ReadFrom(q)
       /\ Len(Results[q]) <= size
       /\ BagCardinality(exchanging[q]) + BagCardinality(publishing[q]) <= workers

\* C33 witness: the Results channel is full and a worker holds a Result it
\* cannot send, while Jobs are still pending.
C33_Witness ==
    \E q \in Queues :
       /\ Len(Results[q]) = size
       /\ publishing[q] # EmptyBag
       /\ Requests[q] # <<>>
       /\ ReadFrom(q) = 0

\* ---------------------------------- claims about the completion signal
\* The orchestrator is about to send on, or to close, the Requests channel of
\* queue q; it has gone past the call of SendCompletionSignal for queue q.
Sending(q) == q = nsIdx /\ pc \in {"submit", "ui_add"}
Signalling(q) == q = nsIdx /\ pc \in {"close", "ui_close"}
Signalled(q) ==
    \/ q < nsIdx
    \/ q = nsIdx /\ pc \in {"collect", "summary", "done", "ui_collect", "ui_done"}

\* C34: in the CLI's run and in the UI's handler alike, where a Job is about
\* to be sent the Requests channel is open; where SendCompletionSignal is
\* about to be called the channel is open and every Job of the batch has
\* entered the queue; a channel is closed exactly when the orchestrator is
\* past that call, and a closed channel has taken the whole batch.
C34_SignalOnceAfterLastJob ==
    \A q \in Queues :
       /\ Sending(q) => ~closed[q]
       /\ Signalling(q) => ~closed[q] /\ BagCardinality(JobsEntered(q)) = N
       /\ closed[q] <=> Signalled(q)
       /\ closed[q] => BagCardinality(JobsEntered(q)) = N

\* C34 witness: the UI's handler has sent two hostnames, closed Requests and
\* read both Results.
C34_Witness ==
    /\ pc = "ui_done"
    /\ N = 2
    /\ closed[1]
    /\ Len(delivered[1]) = 2
    /\ exited[1] = workers

\* ------------------------------------ claims about repeated nameservers
\* The distinct nameserver strings of the list, and the last place of one.
Distinct == {currentNameservers[q] : q \in Queues}
LastOf(ns) ==
    CHOOSE q \in Queues :
       /\ currentNameservers[q] = ns
       /\ \A r \in Queues : currentNameservers[r] = ns => r <= q

\* C35: when the loop is over every occurrence of a nameserver in the list has
\* had its own batch of len(selectedDomains) Results, the Results kept for a
\* nameserver string are those of its last occurrence, len(selectedDomains)
\* of them, and the summary has one entry per distinct string.
C35_OneEntryPerDistinctNameserver ==
    /\ pc \in {"summary", "done"} =>
          /\ \A q \in Queues : Len(delivered[q]) = Len(selectedDomains)
          /\ DOMAIN allResults = Distinct
          /\ \A ns \in Distinct :
                /\ allResults[ns] = delivered[LastOf(ns)]
                /\ Len(allResults[ns]) = Len(selectedDomains)
    /\ pc = "done" =>
          /\ Len(summaryData) = Cardinality(Distinct)
          /\ \A ns \in Distinct :
                Cardinality({i \in DOMAIN summaryData :
                                summaryData[i].Nameserver = ns}) = 1
          /\ \A i \in DOMAIN summaryData :
                summaryData[i].TotalQueries = Len(selectedDomains)

\* C35 witness: a nameserver is listed twice, its two batches came out
\* differently, and the summary has its one entry.
C35_Witness ==
    /\ pc = "done"
    /\ Len(currentNameservers) = 2
    /\ currentNameservers[1] = currentNameservers[2]
    /\ delivered[1] # delivered[2]
    /\ Len(summaryData) = 1
    /\ allResults[currentNameservers[1]] = delivered[2]

\* ------------------------------------------ claims about the Results' order
\* C36: behind a queue started with one worker the Results sent on Results so
\* far answer the first Jobs submitted, in the order of submission.  (That
\* with two workers a Result of a later Job can be sent first is the state of
\* the witness.)
C36_OneWorkerKeepsOrder ==
    workers = 1 =>
       \A q \in Queues :
          /\ Len(delivered[q]) <= SubmittedCount(q)
          /\ \A i \in DOMAIN delivered[q] : delivered[q][i].Request = ExpectedJob(q, i)

\* C36 witness: behind a queue started with two workers the Result of the
\* second Job has been sent on Results and the Result of the first has not.
C36_Witness ==
    /\ workers = 2
    /\ N >= 2
    /\ ExpectedJob(1, 1) # ExpectedJob(1, 2)
    /\ Len(delivered[1]) = 1
    /\ delivered[1][1].Request = ExpectedJob(1, 2)

\* ------------------------------------------ claims about the comparison
\* The entries the summary is sorted from.
Unsorted == SummaryOf(allResults)

\* Neither entry goes before the other.
Incomparable(a, b) == ~Less(a, b) /\ ~Less(b, a)

\* A sequence of entries in which no entry goes before an earlier one.
Sorted(data) ==
    \A i \in DOMAIN data : \A j \in DOMAIN data : i < j => ~Less(data[j], data[i])

\* The (average, successful count) pairs of a sequence of entries.
PairsOf(data) ==
    [i \in DOMAIN data |-> <<data[i].AverageMs, data[i].SuccessfulQueries>>]

\* C37: over the entries of a summary Less is irreflexive, asymmetric and
\* transitive and so is "neither before the other"; every arrangement of the
\* entries that Less leaves in order shows the same (average, successful
\* count) pairs as the sorted summary, which is such an arrangement.
C37_LessIsStrictWeakOrder ==
    LET entries == {Unsorted[i] : i \in DOMAIN Unsorted} IN
    /\ \A a \in entries : ~Less(a, a)
    /\ \A a \in entries : \A b \in entries : Less(a, b) => ~Less(b, a)
    /\ \A a \in entries : \A b \in entries : \A c \in entries :
          /\ (Less(a, b) /\ Less(b, c)) => Less(a, c)
          /\ (Incomparable(a, b) /\ Incomparable(b, c)) => Incomparable(a, c)
    /\ \A data \in Arrivals(Unsorted) :
          Sorted(data) => PairsOf(data) = PairsOf(SortSlice(Unsorted))
    /\ pc = "done" => Sorted(summaryData) /\ summaryData \in Arrivals(Unsorted)

\* C37 witness: three entries are sorted: two that neither go before one
\* another, with equal positive averages and counts, and one with an average
\* of zero, which comes last.
C37_Witness ==
    /\ pc = "done"
    /\ Len(summaryData) = 3
    /\ Incomparable(summaryData[1], summaryData[2])
    /\ FloatIsPositive(summaryData[1].AverageMs)
    /\ FloatIsZero(summaryData[3].AverageMs)
    /\ Less(summaryData[2], summaryData[3])

====
